---- MODULE Spec2Model ----
(***************************************************************************)
(* A model of github.com/agentflare-ai/go-jsonpatch (src/patch.go).        *)
(*                                                                         *)
(* Go values are modelled with reference semantics: a map[string]any is a  *)
(* reference into a heap, a []any is a slice header (backing array, len)   *)
(* whose capacity is the length of the backing array.  Strings that the    *)
(* code builds or parses (JSON pointers, tokens) are sequences of          *)
(* one-character strings.                                                  *)
(***************************************************************************)
EXTENDS Integers, Sequences, FiniteSets, TLC

\* ------------------------------------------------------------------ bounds

\* longest patch the caller passes
MaxOps == 2
\* number of Diff.Apply / Diff.Revert calls made on one Diff
MaxCalls == 3
\* nesting depth up to which a tree is followed when it is serialised
\* (encoding/json gives up on a cyclic value)
MaxDepth == 6
\* longest array given to the differ
MaxArr == 3

\* ------------------------------------------------------------------ values

\* A Go value of type any: a scalar, a map reference, or a slice header.
Scalar(s) == [t |-> "s", v |-> s, a |-> 0, n |-> 0]
MapRef(a) == [t |-> "map", v |-> "", a |-> a, n |-> 0]
ArrRef(a, n) == [t |-> "arr", v |-> "", a |-> a, n |-> n]
Nil == Scalar("null")

\* Heap cells: a map's entries, or a slice's backing array (Len(e) = cap).
MapCell(m) == [m |-> m, e |-> <<>>]
ArrCell(e) == [m |-> <<>>, e |-> e]

\* A JSON text, as a tree (what json.Marshal writes and DeepEqual compares).
PS(s) == [t |-> "s", v |-> s, m |-> <<>>, e |-> <<>>]
PM(m) == [t |-> "map", v |-> "", m |-> m, e |-> <<>>]
PA(e) == [t |-> "arr", v |-> "", m |-> <<>>, e |-> e]
Cyclic == PS("<cycle>")

\* a short variable declaration (v := ...; F(v)): the value is computed once
Bind(v, F(_)) == F(v)

MapPut(m, k, v) == [x \in (DOMAIN m) \cup {k} |-> IF x = k THEN v ELSE m[x]]
MapDel(m, k) == [x \in (DOMAIN m) \ {k} |-> m[x]]

RECURSIVE Marshal(_, _, _)
\* json.Marshal of the value x in heap h, followed to depth d
Marshal(h, x, d) ==
    IF x.t = "s" THEN PS(x.v)
    ELSE IF d = 0 THEN Cyclic
    ELSE IF x.t = "map"
         THEN PM([k \in DOMAIN h[x.a].m |-> Marshal(h, h[x.a].m[k], d - 1)])
         ELSE PA([i \in 1..x.n |-> Marshal(h, h[x.a].e[i], d - 1)])

RECURSIVE HasCycle(_)
HasCycle(pv) ==
    \/ pv = Cyclic
    \/ pv.t = "map" /\ \E k \in DOMAIN pv.m : HasCycle(pv.m[k])
    \/ pv.t = "arr" /\ \E i \in 1..Len(pv.e) : HasCycle(pv.e[i])

\* reflect.DeepEqual / equality of the serialised forms
Reify(h, x) == Marshal(h, x, MaxDepth)

RECURSIVE Pow2Cap(_, _)
Pow2Cap(n, c) == IF c >= n THEN c ELSE Pow2Cap(n, 2 * c)
\* capacity of a slice that json.Unmarshal built by appending n elements
UnmarshalCap(n) == IF n = 0 THEN 0 ELSE Pow2Cap(n, 1)

Pad(k) == [i \in 1..k |-> Nil]

RECURSIVE Unmarshal(_, _)
RECURSIVE UnmarshalMap(_, _, _, _)
RECURSIVE UnmarshalArr(_, _, _, _)
\* json.Unmarshal into a fresh tree holding the JSON value pv: returns [h, v]
Unmarshal(h, pv) ==
    IF pv.t = "s" THEN [h |-> h, v |-> Scalar(pv.v)]
    ELSE IF pv.t = "map" THEN UnmarshalMap(h, pv.m, DOMAIN pv.m, <<>>)
    ELSE UnmarshalArr(h, pv.e, 1, <<>>)

UnmarshalMap(h, pm, keys, acc) ==
    IF keys = {}
    THEN [h |-> Append(h, MapCell(acc)), v |-> MapRef(Len(h) + 1)]
    ELSE Bind(CHOOSE x \in keys : TRUE, LAMBDA k :
         Bind(Unmarshal(h, pm[k]), LAMBDA r :
              UnmarshalMap(r.h, pm, keys \ {k}, MapPut(acc, k, r.v))))

\* the decoder appends the elements one by one to an empty slice
UnmarshalArr(h, pe, i, acc) ==
    IF i > Len(pe)
    THEN [h |-> Append(h, ArrCell(acc \o Pad(UnmarshalCap(Len(pe)) - Len(pe)))),
          v |-> ArrRef(Len(h) + 1, Len(pe))]
    ELSE Bind(Unmarshal(h, pe[i]), LAMBDA r :
              UnmarshalArr(r.h, pe, i + 1, Append(acc, r.v)))

\* the builtin append(s, v)
GoAppend(h, s, val) ==
    LET cap == Len(h[s.a].e) IN
    IF s.n < cap
    THEN [h |-> [h EXCEPT ![s.a].e[s.n + 1] = val], v |-> ArrRef(s.a, s.n + 1)]
    ELSE LET newcap == IF cap = 0 THEN 1 ELSE 2 * cap
             cell == ArrCell(SubSeq(h[s.a].e, 1, s.n) \o <<val>> \o Pad(newcap - s.n - 1))
         IN  [h |-> Append(h, cell), v |-> ArrRef(Len(h) + 1, s.n + 1)]

Fail(h) == [ok |-> FALSE, h |-> h, v |-> Nil]
Ok(h, v) == [ok |-> TRUE, h |-> h, v |-> v]

\* ---------------------------------------------------------- path resolver
\* The jsonpointer package the code imports (its interface, spec.md section 6).

Dash == <<"-">>
Digits == <<"0", "1", "2", "3", "4", "5", "6", "7", "8", "9">>
DigitVal(c) == (CHOOSE i \in 1..10 : Digits[i] = c) - 1
IsDigit(c) == \E i \in 1..10 : Digits[i] = c

RECURSIVE Atoi(_, _)
Atoi(s, acc) == IF s = <<>> THEN acc ELSE Atoi(Tail(s), 10 * acc + DigitVal(Head(s)))

\* jsonpointer.ParseArrayIndex: decimal digits, no leading zero
ParseArrayIndex(tok) ==
    IF /\ Len(tok) >= 1
       /\ \A i \in 1..Len(tok) : IsDigit(tok[i])
       /\ (Len(tok) > 1 => tok[1] # "0")
    THEN [ok |-> TRUE, i |-> Atoi(tok, 0)]
    ELSE [ok |-> FALSE, i |-> 0]

RECURSIVE Itoa(_)
\* strconv.Itoa for n >= 0
Itoa(n) == IF n < 10 THEN <<Digits[n + 1]>> ELSE Itoa(n \div 10) \o <<Digits[(n % 10) + 1]>>

RECURSIVE SplitSlash(_, _, _)
SplitSlash(s, cur, acc) ==
    IF s = <<>> THEN Append(acc, cur)
    ELSE IF Head(s) = "/" THEN SplitSlash(Tail(s), <<>>, Append(acc, cur))
    ELSE SplitSlash(Tail(s), Append(cur, Head(s)), acc)

RECURSIVE Unescape(_)
Unescape(t) ==
    IF t = <<>> THEN <<>>
    ELSE IF Len(t) >= 2 /\ t[1] = "~" /\ t[2] = "1" THEN <<"/">> \o Unescape(SubSeq(t, 3, Len(t)))
    ELSE IF Len(t) >= 2 /\ t[1] = "~" /\ t[2] = "0" THEN <<"~">> \o Unescape(SubSeq(t, 3, Len(t)))
    ELSE <<t[1]>> \o Unescape(Tail(t))

\* jsonpointer.New: parse a pointer string into its tokens
jpNew(path) ==
    IF path = <<>> THEN [ok |-> TRUE, toks |-> <<>>]
    ELSE IF Head(path) # "/" THEN [ok |-> FALSE, toks |-> <<>>]
    ELSE LET raw == SplitSlash(Tail(path), <<>>, <<>>)
         IN  [ok |-> TRUE, toks |-> [i \in 1..Len(raw) |-> Unescape(raw[i])]]

RECURSIVE ReplaceChar(_, _, _)
\* strings.ReplaceAll(s, c, by) for a one-character c
ReplaceChar(s, c, by) ==
    IF s = <<>> THEN <<>>
    ELSE (IF Head(s) = c THEN by ELSE <<Head(s)>>) \o ReplaceChar(Tail(s), c, by)

escapeToken(s) == ReplaceChar(ReplaceChar(s, "~", <<"~", "0">>), "/", <<"~", "1">>)

RECURSIVE jpString(_)
\* Pointer.String: the pointer string of a token list
jpString(toks) ==
    IF toks = <<>> THEN <<>>
    ELSE <<"/">> \o escapeToken(Head(toks)) \o jpString(Tail(toks))

\* one step of pointer evaluation
jpStep(h, cur, tok) ==
    IF cur.t = "map"
    THEN IF tok \in DOMAIN h[cur.a].m
         THEN [ok |-> TRUE, v |-> h[cur.a].m[tok]]
         ELSE [ok |-> FALSE, v |-> Nil]
    ELSE IF cur.t = "arr"
    THEN Bind(ParseArrayIndex(tok), LAMBDA ix :
         IF ix.ok /\ ix.i < cur.n
         THEN [ok |-> TRUE, v |-> h[cur.a].e[ix.i + 1]]
         ELSE [ok |-> FALSE, v |-> Nil])
    ELSE [ok |-> FALSE, v |-> Nil]

RECURSIVE jpGetToks(_, _, _)
\* Pointer.Get
jpGetToks(h, cur, toks) ==
    IF toks = <<>> THEN [ok |-> TRUE, v |-> cur]
    ELSE Bind(jpStep(h, cur, Head(toks)), LAMBDA st :
         IF st.ok THEN jpGetToks(h, st.v, Tail(toks)) ELSE st)

\* jsonpointer.Get
jpGet(h, doc, path) ==
    Bind(jpNew(path), LAMBDA p :
    IF p.ok THEN jpGetToks(h, doc, p.toks) ELSE [ok |-> FALSE, v |-> Nil])

\* store child value val under tok of the container cur (cur[tok] = val)
jpStore(h, cur, tok, val) ==
    IF cur.t = "map"
    THEN [h EXCEPT ![cur.a].m = MapPut(@, tok, val)]
    ELSE [h EXCEPT ![cur.a].e[ParseArrayIndex(tok).i + 1] = val]

RECURSIVE jpSetIn(_, _, _, _)
\* set below the container cur; v is cur's value afterwards (a slice that
\* grew has a new header, which its parent stores)
jpSetIn(h, cur, toks, val) ==
    Bind(Head(toks), LAMBDA tok :
    IF Len(toks) = 1
    THEN IF cur.t = "arr" /\ tok = Dash THEN GoAppend(h, cur, val) @@ [ok |-> TRUE]
         ELSE IF cur.t = "map" \/ (cur.t = "arr" /\ jpStep(h, cur, tok).ok)
         THEN Ok(jpStore(h, cur, tok, val), cur)
         ELSE Fail(h)
    ELSE Bind(jpStep(h, cur, tok), LAMBDA st :
         IF ~st.ok THEN Fail(h)
         ELSE Bind(jpSetIn(h, st.v, Tail(toks), val), LAMBDA r :
              IF ~r.ok THEN Fail(r.h)
              ELSE Ok(jpStore(r.h, cur, tok, r.v), cur))))

\* jsonpointer.Set: writes in place and returns the (possibly new) root
jpSet(h, doc, path, val) ==
    Bind(jpNew(path), LAMBDA p :
    IF ~p.ok THEN Fail(h)
    ELSE IF p.toks = <<>> THEN Ok(h, val)
    ELSE jpSetIn(h, doc, p.toks, val))

RECURSIVE jpRemoveIn(_, _, _)
jpRemoveIn(h, cur, toks) ==
    Bind(Head(toks), LAMBDA tok :
    Bind(jpStep(h, cur, tok), LAMBDA st :
    IF ~st.ok THEN Fail(h)
    ELSE IF Len(toks) = 1
    THEN IF cur.t = "map"
         THEN Ok([h EXCEPT ![cur.a].m = MapDel(@, tok)], cur)
         ELSE \* append(arr[:i], arr[i+1:]...) shifts the tail down in place
              Bind(ParseArrayIndex(tok).i + 1, LAMBDA i :
              Ok([h EXCEPT ![cur.a].e = [j \in 1..Len(@) |->
                                           IF j >= i /\ j < cur.n THEN @[j + 1] ELSE @[j]]],
                 ArrRef(cur.a, cur.n - 1)))
    ELSE Bind(jpRemoveIn(h, st.v, Tail(toks)), LAMBDA r :
         IF ~r.ok THEN Fail(r.h)
         ELSE Ok(jpStore(r.h, cur, tok, r.v), cur))))

\* jsonpointer.Remove: removes in place and returns the (possibly new) root
jpRemove(h, doc, path) ==
    Bind(jpNew(path), LAMBDA p :
    IF ~p.ok \/ p.toks = <<>> THEN Fail(h)
    ELSE jpRemoveIn(h, doc, p.toks))

\* ------------------------------------------------------ application engine

\* deepCopyAny: a JSON round trip; fails on a value json.Marshal rejects
deepCopyAny(h, x) ==
    Bind(Reify(h, x), LAMBDA pv :
    IF HasCycle(pv) THEN Fail(h)
    ELSE Unmarshal(h, pv) @@ [ok |-> TRUE])

ParentToks(toks) == SubSeq(toks, 1, Len(toks) - 1)

\* an add that is a plain set at the path
applyAddSet(h, doc, path, val) == jpSet(h, doc, path, val)

\* applyAdd
applyAdd(h, doc, path, val) ==
    Bind(jpNew(path), LAMBDA p :
    IF ~p.ok THEN Fail(h)
    ELSE IF p.toks = <<>> THEN Ok(h, val)
    ELSE Bind(jpString(ParentToks(p.toks)), LAMBDA parentPath :
         Bind(p.toks[Len(p.toks)], LAMBDA token :
         Bind(jpGet(h, doc, parentPath), LAMBDA parent :
         Bind(ParseArrayIndex(token), LAMBDA idx :
         IF ~parent.ok THEN Fail(h)
         ELSE IF parent.v.t = "arr" /\ token = Dash
         THEN Bind(GoAppend(h, parent.v, val), LAMBDA newArr :
                   jpSet(newArr.h, doc, parentPath, newArr.v))
         ELSE IF parent.v.t = "arr" /\ idx.ok
         THEN IF idx.i > parent.v.n THEN Fail(h)
              ELSE Bind(SubSeq(h[parent.v.a].e, 1, parent.v.n), LAMBDA arr :
                   Bind(SubSeq(arr, 1, idx.i) \o <<val>> \o SubSeq(arr, idx.i + 1, Len(arr)),
                        LAMBDA newArr :
                   jpSet(Append(h, ArrCell(newArr)), doc, parentPath,
                         ArrRef(Len(h) + 1, Len(newArr)))))
         ELSE jpSet(h, doc, path, val))))))

\* applyRemove
applyRemove(h, doc, path) == jpRemove(h, doc, path)

\* applyReplace
applyReplace(h, doc, path, val) ==
    IF ~jpGet(h, doc, path).ok THEN Fail(h)
    ELSE jpSet(h, doc, path, val)

\* a move that writes the destination before it removes the source
applyMoveAddFirst(h, doc, from, to) ==
    Bind(jpGet(h, doc, from), LAMBDA val :
    IF ~val.ok THEN Fail(h)
    ELSE Bind(applyAdd(h, doc, to, val.v), LAMBDA r :
         IF ~r.ok THEN Fail(r.h)
         ELSE jpRemove(r.h, r.v, from)))

\* applyMove
applyMove(h, doc, from, to) ==
    Bind(jpGet(h, doc, from), LAMBDA val :
    IF ~val.ok THEN Fail(h)
    ELSE Bind(jpRemove(h, doc, from), LAMBDA r :
         IF ~r.ok THEN Fail(r.h)
         ELSE applyAdd(r.h, r.v, to, val.v)))

\* a copy that writes its destination the way add does
applyCopyAdd(h, doc, from, to) ==
    Bind(jpGet(h, doc, from), LAMBDA val :
    IF ~val.ok THEN Fail(h)
    ELSE applyAdd(h, doc, to, val.v))

\* applyCopy
applyCopy(h, doc, from, to) ==
    Bind(jpGet(h, doc, from), LAMBDA val :
    IF ~val.ok THEN Fail(h)
    ELSE jpSet(h, doc, to, val.v))

\* a test that only looks whether the path exists
applyTestExists(h, doc, path, expected) == jpGet(h, doc, path).ok

\* applyTest: compares the two serialisations
applyTest(h, doc, path, expected) ==
    Bind(jpGet(h, doc, path), LAMBDA actual :
    IF ~actual.ok THEN FALSE
    ELSE Bind(Reify(h, actual.v), LAMBDA ab :
         Bind(Reify(h, expected), LAMBDA eb :
              ~HasCycle(ab) /\ ~HasCycle(eb) /\ ab = eb)))

OpKinds == {"add", "remove", "replace", "move", "copy", "test"}

\* one iteration of the loop of ApplyInPlace: the switch on op.Op
applyOp(h, doc, op) ==
    IF op.op = "add" THEN applyAdd(h, doc, op.path, op.value)
    ELSE IF op.op = "remove" THEN applyRemove(h, doc, op.path)
    ELSE IF op.op = "replace" THEN applyReplace(h, doc, op.path, op.value)
    ELSE IF op.op = "move" THEN applyMove(h, doc, op.from, op.path)
    ELSE IF op.op = "copy" THEN applyCopy(h, doc, op.from, op.path)
    ELSE IF op.op = "test"
         THEN IF applyTest(h, doc, op.path, op.value) THEN Ok(h, doc) ELSE Fail(h)
    ELSE Fail(h)

\* the error ApplyInPlace returns: the arguments of its format string
NoErr == [failed |-> FALSE, msg |-> "", kind |-> ""]
\* an error that does not carry the kind of the operation
OpErrNoKind(op) == [failed |-> TRUE, msg |-> "patch operation failed", kind |-> ""]
OpErr(op) ==
    IF op.op \in OpKinds
    THEN [failed |-> TRUE, msg |-> "patch operation %s failed", kind |-> op.op]
    ELSE [failed |-> TRUE, msg |-> "unsupported patch operation: %s", kind |-> op.op]

RECURSIVE ApplyLoopSkip(_, _, _, _, _)
\* a loop that goes on with the next operation after one that failed
ApplyLoopSkip(h, doc, patch, i, ran) ==
    IF i > Len(patch)
    THEN [ok |-> TRUE, h |-> h, v |-> doc, err |-> NoErr, ran |-> ran]
    ELSE Bind(applyOp(h, doc, patch[i]), LAMBDA r :
         ApplyLoopSkip(r.h, IF r.ok THEN r.v ELSE doc, patch, i + 1, Append(ran, i)))

RECURSIVE ApplyLoop(_, _, _, _, _)
\* the loop of ApplyInPlace from operation i on; ran lists the operations
\* that were executed, in the order they were executed
ApplyLoop(h, doc, patch, i, ran) ==
    IF i > Len(patch)
    THEN [ok |-> TRUE, h |-> h, v |-> doc, err |-> NoErr, ran |-> ran]
    ELSE Bind(applyOp(h, doc, patch[i]), LAMBDA r :
         IF ~r.ok
         THEN [ok |-> FALSE, h |-> r.h, v |-> Nil, err |-> OpErr(patch[i]),
               ran |-> Append(ran, i)]
         ELSE ApplyLoop(r.h, r.v, patch, i + 1, Append(ran, i)))

\* ApplyInPlace
ApplyInPlace(h, doc, patch) == ApplyLoop(h, doc, patch, 1, <<>>)

\* an Apply that works on the caller's document itself
ApplyNoCopy(h, doc, patch) == ApplyInPlace(h, doc, patch)

\* Apply: a JSON round trip of the document, then ApplyInPlace on the copy
Apply(h, doc, patch) ==
    Bind(deepCopyAny(h, doc), LAMBDA c :
    IF ~c.ok
    THEN [ok |-> FALSE, h |-> h, v |-> Nil,
          err |-> [failed |-> TRUE, msg |-> "failed to marshal document", kind |-> ""],
          ran |-> <<>>]
    ELSE ApplyInPlace(c.h, c.v, patch))


\* --------------------------------------------------------- delta compiler

NoDiff == [Deltas |-> <<>>, forward |-> <<>>, reverse |-> <<>>]

Delta(path, op, before, after, existedBefore, existedAfter) ==
    [Path |-> path, Op |-> op, Before |-> before, After |-> after,
     ExistedBefore |-> existedBefore, ExistedAfter |-> existedAfter]

Operation(op, path, from, value) == [op |-> op, path |-> path, from |-> from, value |-> value]

\* isRootPath
isRootPath(path) == Bind(jpNew(path), LAMBDA p : p.ok /\ Len(p.toks) = 0)

\* tryGetDeep: [ok, existed, h, v]
tryGetDeep(h, doc, path) ==
    Bind(jpGet(h, doc, path), LAMBDA val :
    IF ~val.ok THEN [ok |-> TRUE, existed |-> FALSE, h |-> h, v |-> Nil]
    ELSE Bind(deepCopyAny(h, val.v), LAMBDA cp :
         IF ~cp.ok THEN [ok |-> FALSE, existed |-> FALSE, h |-> h, v |-> Nil]
         ELSE [ok |-> TRUE, existed |-> TRUE, h |-> cp.h, v |-> cp.v]))

\* a resolution that returns the path as it is
resolveKeepPath(h, doc, path) == [ok |-> TRUE, path |-> path]

\* resolveConcreteAddPath: [ok, path]
resolveConcreteAddPath(h, doc, path) ==
    Bind(jpNew(path), LAMBDA p :
    IF ~p.ok THEN [ok |-> FALSE, path |-> <<>>]
    ELSE IF Len(p.toks) = 0 THEN [ok |-> TRUE, path |-> path]
    ELSE Bind(jpString(ParentToks(p.toks)), LAMBDA parentPath :
         Bind(p.toks[Len(p.toks)], LAMBDA token :
         IF token # Dash THEN [ok |-> TRUE, path |-> path]
         ELSE Bind(jpGet(h, doc, parentPath), LAMBDA parent :
              IF ~parent.ok \/ parent.v.t # "arr" THEN [ok |-> FALSE, path |-> <<>>]
              ELSE [ok |-> TRUE, path |-> parentPath \o <<"/">> \o Itoa(parent.v.n)]))))

PFail(h) == [ok |-> FALSE, h |-> h, v |-> Nil, deltas |-> <<>>]

\* Prepare, case Add
prepareAdd(h, docCopy, op) ==
    Bind(resolveConcreteAddPath(h, docCopy, op.path), LAMBDA resolved :
    IF ~resolved.ok THEN PFail(h)
    ELSE Bind(tryGetDeep(h, docCopy, resolved.path), LAMBDA before :
    IF ~before.ok THEN PFail(h)
    ELSE Bind(deepCopyAny(before.h, op.value), LAMBDA afterVal :
    IF ~afterVal.ok THEN PFail(h)
    ELSE Bind(applyAdd(afterVal.h, docCopy, op.path, op.value), LAMBDA r :
    IF ~r.ok THEN PFail(r.h)
    ELSE [ok |-> TRUE, h |-> r.h, v |-> r.v,
          deltas |-> <<Delta(resolved.path, "add", before.v, afterVal.v, before.existed, TRUE)>>]))))

\* Prepare, case Remove
prepareRemove(h, docCopy, op) ==
    Bind(jpGet(h, docCopy, op.path), LAMBDA raw :
    IF ~raw.ok THEN PFail(h)
    ELSE Bind(deepCopyAny(h, raw.v), LAMBDA beforeVal :
    IF ~beforeVal.ok THEN PFail(h)
    ELSE Bind(applyRemove(beforeVal.h, docCopy, op.path), LAMBDA r :
    IF ~r.ok THEN PFail(r.h)
    ELSE [ok |-> TRUE, h |-> r.h, v |-> r.v,
          deltas |-> <<Delta(op.path, "remove", beforeVal.v, Nil, TRUE, FALSE)>>])))

\* Prepare, case Replace
prepareReplace(h, docCopy, op) ==
    Bind(jpGet(h, docCopy, op.path), LAMBDA raw :
    IF ~raw.ok THEN PFail(h)
    ELSE Bind(deepCopyAny(h, raw.v), LAMBDA beforeVal :
    IF ~beforeVal.ok THEN PFail(h)
    ELSE Bind(deepCopyAny(beforeVal.h, op.value), LAMBDA afterVal :
    IF ~afterVal.ok THEN PFail(h)
    ELSE Bind(applyReplace(afterVal.h, docCopy, op.path, op.value), LAMBDA r :
    IF ~r.ok THEN PFail(r.h)
    ELSE [ok |-> TRUE, h |-> r.h, v |-> r.v,
          deltas |-> <<Delta(op.path, "replace", beforeVal.v, afterVal.v, TRUE, TRUE)>>]))))

\* a move case that records the remove Delta before the add Delta
prepareMoveSwapped(h, docCopy, op) ==
    Bind(jpGet(h, docCopy, op.from), LAMBDA raw :
    IF ~raw.ok THEN PFail(h)
    ELSE Bind(deepCopyAny(h, raw.v), LAMBDA valCopy :
    IF ~valCopy.ok THEN PFail(h)
    ELSE Bind(resolveConcreteAddPath(valCopy.h, docCopy, op.path), LAMBDA resolved :
    IF ~resolved.ok THEN PFail(h)
    ELSE Bind(tryGetDeep(valCopy.h, docCopy, resolved.path), LAMBDA dest :
    IF ~dest.ok THEN PFail(h)
    ELSE Bind(applyMove(dest.h, docCopy, op.from, op.path), LAMBDA r :
    IF ~r.ok THEN PFail(r.h)
    ELSE [ok |-> TRUE, h |-> r.h, v |-> r.v,
          deltas |-> <<Delta(op.from, "remove", valCopy.v, Nil, TRUE, FALSE),
                       Delta(resolved.path, "add", dest.v, valCopy.v, dest.existed, TRUE)>>])))))

\* Prepare, case Move
prepareMove(h, docCopy, op) ==
    Bind(jpGet(h, docCopy, op.from), LAMBDA raw :
    IF ~raw.ok THEN PFail(h)
    ELSE Bind(deepCopyAny(h, raw.v), LAMBDA valCopy :
    IF ~valCopy.ok THEN PFail(h)
    ELSE Bind(resolveConcreteAddPath(valCopy.h, docCopy, op.path), LAMBDA resolved :
    IF ~resolved.ok THEN PFail(h)
    ELSE Bind(tryGetDeep(valCopy.h, docCopy, resolved.path), LAMBDA dest :
    IF ~dest.ok THEN PFail(h)
    ELSE Bind(applyMove(dest.h, docCopy, op.from, op.path), LAMBDA r :
    IF ~r.ok THEN PFail(r.h)
    ELSE [ok |-> TRUE, h |-> r.h, v |-> r.v,
          deltas |-> <<Delta(resolved.path, "add", dest.v, valCopy.v, dest.existed, TRUE),
                       Delta(op.from, "remove", valCopy.v, Nil, TRUE, FALSE)>>])))))

\* Prepare, case Copy
prepareCopy(h, docCopy, op) ==
    Bind(jpGet(h, docCopy, op.from), LAMBDA raw :
    IF ~raw.ok THEN PFail(h)
    ELSE Bind(deepCopyAny(h, raw.v), LAMBDA valCopy :
    IF ~valCopy.ok THEN PFail(h)
    ELSE Bind(resolveConcreteAddPath(valCopy.h, docCopy, op.path), LAMBDA resolved :
    IF ~resolved.ok THEN PFail(h)
    ELSE Bind(tryGetDeep(valCopy.h, docCopy, resolved.path), LAMBDA dest :
    IF ~dest.ok THEN PFail(h)
    ELSE Bind(applyCopy(dest.h, docCopy, op.from, op.path), LAMBDA r :
    IF ~r.ok THEN PFail(r.h)
    ELSE [ok |-> TRUE, h |-> r.h, v |-> r.v,
          deltas |-> <<Delta(resolved.path, "add", dest.v, valCopy.v, dest.existed, TRUE)>>])))))

\* Prepare, case Test
prepareTest(h, docCopy, op) ==
    IF applyTest(h, docCopy, op.path, op.value)
    THEN [ok |-> TRUE, h |-> h, v |-> docCopy, deltas |-> <<>>]
    ELSE PFail(h)

\* the switch of the simulation loop of Prepare
prepareOp(h, docCopy, op) ==
    IF op.op = "add" THEN prepareAdd(h, docCopy, op)
    ELSE IF op.op = "remove" THEN prepareRemove(h, docCopy, op)
    ELSE IF op.op = "replace" THEN prepareReplace(h, docCopy, op)
    ELSE IF op.op = "move" THEN prepareMove(h, docCopy, op)
    ELSE IF op.op = "copy" THEN prepareCopy(h, docCopy, op)
    ELSE IF op.op = "test" THEN prepareTest(h, docCopy, op)
    ELSE PFail(h)

RECURSIVE PrepareLoopPartial(_, _, _, _, _)
\* a simulation loop that stops at an operation that fails and returns the
\* Deltas recorded before it
PrepareLoopPartial(h, docCopy, patch, i, deltas) ==
    IF i > Len(patch)
    THEN [ok |-> TRUE, h |-> h, v |-> docCopy, deltas |-> deltas, at |-> 0]
    ELSE Bind(prepareOp(h, docCopy, patch[i]), LAMBDA r :
         IF ~r.ok THEN [ok |-> TRUE, h |-> r.h, v |-> docCopy, deltas |-> deltas, at |-> 0]
         ELSE PrepareLoopPartial(r.h, r.v, patch, i + 1, deltas \o r.deltas))

RECURSIVE PrepareLoop(_, _, _, _, _)
\* the simulation loop of Prepare from operation i on
PrepareLoop(h, docCopy, patch, i, deltas) ==
    IF i > Len(patch)
    THEN [ok |-> TRUE, h |-> h, v |-> docCopy, deltas |-> deltas, at |-> 0]
    ELSE Bind(prepareOp(h, docCopy, patch[i]), LAMBDA r :
         IF ~r.ok THEN [ok |-> FALSE, h |-> r.h, v |-> Nil, deltas |-> <<>>, at |-> i]
         ELSE PrepareLoop(r.h, r.v, patch, i + 1, deltas \o r.deltas))

\* the forward operation of one Delta
forwardOp(delta) ==
    IF delta.Op = "add" THEN Operation("add", delta.Path, <<>>, delta.After)
    ELSE IF delta.Op = "remove" THEN Operation("remove", delta.Path, <<>>, Nil)
    ELSE Operation("replace", delta.Path, <<>>, delta.After)

\* a reverse operation that undoes every add Delta by a remove
reverseOpRemove(delta) ==
    IF isRootPath(delta.Path) THEN Operation("replace", <<>>, <<>>, delta.Before)
    ELSE IF delta.Op = "add" THEN Operation("remove", delta.Path, <<>>, Nil)
    ELSE IF delta.Op = "remove" THEN Operation("add", delta.Path, <<>>, delta.Before)
    ELSE Operation("replace", delta.Path, <<>>, delta.Before)

\* the reverse operation of one Delta
reverseOp(delta) ==
    IF isRootPath(delta.Path) THEN Operation("replace", <<>>, <<>>, delta.Before)
    ELSE IF delta.Op = "add"
         THEN IF delta.ExistedBefore
              THEN Operation("replace", delta.Path, <<>>, delta.Before)
              ELSE Operation("remove", delta.Path, <<>>, Nil)
    ELSE IF delta.Op = "remove" THEN Operation("add", delta.Path, <<>>, delta.Before)
    ELSE Operation("replace", delta.Path, <<>>, delta.Before)

\* compilation of the forward and the reverse patch from the Deltas
compileDiff(deltas) ==
    [Deltas |-> deltas,
     forward |-> [i \in 1..Len(deltas) |-> forwardOp(deltas[i])],
     reverse |-> [i \in 1..Len(deltas) |-> reverseOp(deltas[Len(deltas) + 1 - i])]]

\* a Prepare that simulates the patch on the caller's document itself
PrepareNoCopy(h, original, patch) ==
    Bind(PrepareLoop(h, original, patch, 1, <<>>), LAMBDA r :
    IF ~r.ok THEN [ok |-> FALSE, h |-> r.h, diff |-> NoDiff, at |-> r.at]
    ELSE [ok |-> TRUE, h |-> r.h, diff |-> compileDiff(r.deltas), at |-> 0])

\* Prepare: [ok, h, diff, at] (at: the operation the simulation failed on)
Prepare(h, original, patch) ==
    Bind(deepCopyAny(h, original), LAMBDA docCopy :
    IF ~docCopy.ok THEN [ok |-> FALSE, h |-> h, diff |-> NoDiff, at |-> 0]
    ELSE Bind(PrepareLoop(docCopy.h, docCopy.v, patch, 1, <<>>), LAMBDA r :
         IF ~r.ok THEN [ok |-> FALSE, h |-> r.h, diff |-> NoDiff, at |-> r.at]
         ELSE [ok |-> TRUE, h |-> r.h, diff |-> compileDiff(r.deltas), at |-> 0]))

\* Diff.Apply
DiffApply(h, d, document) == ApplyInPlace(h, document, d.forward)

\* Diff.Revert
DiffRevert(h, d, document) == ApplyInPlace(h, document, d.reverse)


\* ------------------------------------------------------- structural differ
\* The differ works on the normalised inputs (normalizeJSONInput: a JSON round
\* trip), which it only reads: values are JSON trees here.  Indices are
\* 0-based as in the code; At0 reads a 0-based position of a sequence.

At0(s, i) == s[i + 1]

\* joinPath
joinPath(base, token) ==
    IF base = <<>> THEN <<"/">> \o escapeToken(token)
    ELSE base \o <<"/">> \o escapeToken(token)

\* the comparison token of one array element: a type prefix, then the text of
\* a scalar or the canonical JSON of a container
Token(prefix, text, json) == [p |-> prefix, s |-> text, j |-> json]
tokenOf(v) ==
    IF v.t # "s" THEN Token("j:", "", v)
    ELSE IF v.v = "null" THEN Token("0", "", PS(""))
    ELSE IF v.v = "true" THEN Token("b:1", "", PS(""))
    ELSE IF v.v = "false" THEN Token("b:0", "", PS(""))
    ELSE IF v.v \in {"0", "1", "2"} THEN Token("n:", v.v, PS(""))
    ELSE Token("s:", v.v, PS(""))

\* tokenizeArray
tokenizeArray(arr) == [i \in 1..Len(arr) |-> tokenOf(arr[i])]

RECURSIVE buildPosMap(_, _, _)
\* diffArray: token -> queue of the positions of the token in a
buildPosMap(atoks, i, posMap) ==
    IF i >= Len(atoks) THEN posMap
    ELSE LET t == At0(atoks, i) IN
         buildPosMap(atoks, i + 1,
                     MapPut(posMap, t, (IF t \in DOMAIN posMap THEN posMap[t] ELSE <<>>) \o <<i>>))

RECURSIVE pairLoop(_, _, _, _)
\* diffArray: pair each element of b, in order, with the first position of
\* an equal token of a that is not consumed yet
pairLoop(btoks, j, posMap, pairs) ==
    IF j >= Len(btoks) THEN pairs
    ELSE LET t == At0(btoks, j)
             q == IF t \in DOMAIN posMap THEN posMap[t] ELSE <<>>
         IN  IF Len(q) = 0 THEN pairLoop(btoks, j + 1, posMap, pairs)
             ELSE pairLoop(btoks, j + 1, MapPut(posMap, t, Tail(q)),
                           Append(pairs, [ai |-> Head(q), bj |-> j]))

\* a search that always answers the end of the tails
lisSearchEnd(seq, tails, v, lo, hi) == hi

RECURSIVE lisSearch(_, _, _, _, _)
\* diffArray: the binary search for the first tail whose value is >= v
lisSearch(seq, tails, v, lo, hi) ==
    IF lo < hi
    THEN LET mid == (lo + hi) \div 2 IN
         IF At0(seq, At0(tails, mid)) < v
         THEN lisSearch(seq, tails, v, mid + 1, hi)
         ELSE lisSearch(seq, tails, v, lo, mid)
    ELSE lo

RECURSIVE lisLoop(_, _, _, _)
\* diffArray: the patience loop; returns [tails, prev]
lisLoop(seq, i, tails, prev) ==
    IF i >= Len(seq) THEN [tails |-> tails, prev |-> prev]
    ELSE LET v == At0(seq, i)
             pos == lisSearch(seq, tails, v, 0, Len(tails))
             prev2 == IF pos > 0 THEN [prev EXCEPT ![i + 1] = At0(tails, pos - 1)] ELSE prev
             tails2 == IF pos = Len(tails) THEN Append(tails, i)
                       ELSE [tails EXCEPT ![pos + 1] = i]
         IN  lisLoop(seq, i + 1, tails2, prev2)

RECURSIVE lisBack(_, _, _, _)
\* diffArray: follow the predecessors back from the last tail
lisBack(prev, x, p, lisIdx) ==
    IF x < 0 THEN lisIdx
    ELSE LET l2 == [lisIdx EXCEPT ![x + 1] = p]
             p2 == At0(prev, p)
         IN  IF p2 < 0 /\ x > 0 THEN l2 ELSE lisBack(prev, x - 1, p2, l2)

\* diffArray: the positions (in the pair list) of a longest increasing subsequence
lisOf(seq) ==
    Bind(lisLoop(seq, 0, <<>>, [i \in 1..Len(seq) |-> -1]), LAMBDA r :
    Bind(Len(r.tails), LAMBDA lisLen :
        IF lisLen > 0
        THEN lisBack(r.prev, lisLen - 1, At0(r.tails, lisLen - 1), [i \in 1..lisLen |-> 0])
        ELSE <<>>))

RECURSIVE removesUp(_, _, _)
\* the removes in ascending index order
removesUp(path, i, keepA) ==
    IF i < 0 THEN <<>>
    ELSE removesUp(path, i - 1, keepA)
         \o (IF i \in keepA THEN <<>>
             ELSE <<[op |-> "remove", path |-> joinPath(path, Itoa(i)), from |-> <<>>,
                     value |-> PS("null")]>>)

RECURSIVE removesFrom(_, _, _)
\* diffArray: the removes, in descending index order
removesFrom(path, i, keepA) ==
    IF i < 0 THEN <<>>
    ELSE (IF i \in keepA THEN <<>>
          ELSE <<[op |-> "remove", path |-> joinPath(path, Itoa(i)), from |-> <<>>,
                  value |-> PS("null")]>>)
         \o removesFrom(path, i - 1, keepA)

RECURSIVE addsDown(_, _, _, _)
\* the adds in descending index order
addsDown(path, j, b, keepB) ==
    IF j >= Len(b) THEN <<>>
    ELSE addsDown(path, j + 1, b, keepB)
         \o (IF j \in keepB THEN <<>>
             ELSE <<[op |-> "add", path |-> joinPath(path, Itoa(j)), from |-> <<>>,
                     value |-> At0(b, j)]>>)

RECURSIVE addsFrom(_, _, _, _)
\* diffArray: the adds, in ascending index order
addsFrom(path, j, b, keepB) ==
    IF j >= Len(b) THEN <<>>
    ELSE (IF j \in keepB THEN <<>>
          ELSE <<[op |-> "add", path |-> joinPath(path, Itoa(j)), from |-> <<>>,
                  value |-> At0(b, j)]>>)
         \o addsFrom(path, j + 1, b, keepB)

\* diffArray: the kept (ai, bj) pairs
keptPairs(a, b) ==
    Bind(pairLoop(tokenizeArray(b), 0, buildPosMap(tokenizeArray(a), 0, <<>>), <<>>),
         LAMBDA pairs :
    Bind(lisOf([i \in 1..Len(pairs) |-> pairs[i].ai]), LAMBDA lisIdx :
         [i \in 1..Len(lisIdx) |-> At0(pairs, lisIdx[i])]))

\* diffArray
diffArray(path, a, b) ==
    Bind(keptPairs(a, b), LAMBDA kept :
         removesFrom(path, Len(a) - 1, {kept[i].ai : i \in 1..Len(kept)})
         \o addsFrom(path, 0, b, {kept[i].bj : i \in 1..Len(kept)}))

RECURSIVE Orders(_)
\* the orders in which a range loop may visit the keys of a map
Orders(S) == IF S = {} THEN {<<>>} ELSE UNION {{<<x>> \o o : o \in Orders(S \ {x})} : x \in S}

RECURSIVE diffValue(_, _, _)
RECURSIVE diffObject(_, _, _)
RECURSIVE diffKeys(_, _, _, _)

\* a diffValue without the test for deep equality
diffValueNoEq(path, a, b) ==
    IF a.t = "map" /\ b.t = "map" THEN diffObject(path, a.m, b.m)
    ELSE IF a.t = "arr" /\ b.t = "arr" THEN {diffArray(path, a.e, b.e)}
    ELSE {<<[op |-> "replace", path |-> path, from |-> <<>>, value |-> b]>>}

\* diffValue: the set of patches the call may return (one per iteration order
\* of the maps it ranges over)
diffValue(path, a, b) ==
    IF a = b THEN {<<>>}
    ELSE IF a.t = "map" /\ b.t = "map" THEN diffObject(path, a.m, b.m)
    ELSE IF a.t = "arr" /\ b.t = "arr" THEN {diffArray(path, a.e, b.e)}
    ELSE {<<[op |-> "replace", path |-> path, from |-> <<>>, value |-> b]>>}

\* diffObject, second loop: the keys of b in the order ks
diffKeys(path, a, b, ks) ==
    IF ks = <<>> THEN {<<>>}
    ELSE LET kb == Head(ks)
             here == IF kb \in DOMAIN a
                     THEN diffValue(joinPath(path, kb), a[kb], b[kb])
                     ELSE {<<[op |-> "add", path |-> joinPath(path, kb), from |-> <<>>,
                              value |-> b[kb]]>>}
         IN  {x \o y : x \in here, y \in diffKeys(path, a, b, Tail(ks))}

\* diffObject
diffObject(path, a, b) ==
    LET removed == (DOMAIN a) \ (DOMAIN b)
        removes == {[i \in 1..Len(o) |-> [op |-> "remove", path |-> joinPath(path, o[i]),
                                          from |-> <<>>, value |-> PS("null")]] :
                    o \in Orders(removed)}
        rest == UNION {diffKeys(path, a, b, o) : o \in Orders(DOMAIN b)}
    IN  {x \o y : x \in removes, y \in rest}

\* New: a and b are read through a JSON round trip (normalizeJSONInput)
New(a, b) == diffValue(<<>>, a, b)

\* ------------------------------------------------------ addition extractor

\* shallowCloneMap: [h, v]
shallowCloneMap(h, m) == [h |-> Append(h, MapCell(h[m.a].m)), v |-> MapRef(Len(h) + 1)]

\* shallowCloneSlice: make([]any, len(s)) and copy
shallowCloneSlice(h, s) ==
    [h |-> Append(h, ArrCell(SubSeq(h[s.a].e, 1, s.n))), v |-> ArrRef(Len(h) + 1, s.n)]

\* map[string]any{} or []any{}
NewContainer(h, wantArray) ==
    IF wantArray THEN [h |-> Append(h, ArrCell(<<>>)), v |-> ArrRef(Len(h) + 1, 0)]
    ELSE [h |-> Append(h, MapCell(<<>>)), v |-> MapRef(Len(h) + 1)]

RECURSIVE cowWalk(_, _, _, _)
\* cowSetAtPath, first loop: the stack of frames along the path: [ok, stack]
cowWalk(h, current, tokens, stack) ==
    IF tokens = <<>> THEN [ok |-> TRUE, stack |-> stack]
    ELSE Bind(Head(tokens), LAMBDA tok :
         IF current.t = "map"
         THEN IF tok \notin DOMAIN h[current.a].m THEN [ok |-> FALSE, stack |-> <<>>]
              ELSE cowWalk(h, h[current.a].m[tok], Tail(tokens),
                           Append(stack, [container |-> current, key |-> tok, index |-> 0]))
         ELSE IF current.t = "arr"
         THEN Bind(ParseArrayIndex(tok), LAMBDA uidx :
              IF tok = Dash \/ ~uidx.ok \/ uidx.i >= current.n
              THEN [ok |-> FALSE, stack |-> <<>>]
              ELSE cowWalk(h, h[current.a].e[uidx.i + 1], Tail(tokens),
                           Append(stack, [container |-> current, key |-> <<>>, index |-> uidx.i])))
         ELSE [ok |-> FALSE, stack |-> <<>>])

RECURSIVE cowRebuild(_, _, _, _)
\* cowSetAtPath, second loop: from the last frame to the first, a clone of the
\* frame's container with the updated child
cowRebuild(h, stack, i, updated) ==
    IF i = 0 THEN Ok(h, updated)
    ELSE Bind(stack[i], LAMBDA fr :
         IF fr.container.t = "map"
         THEN Bind(shallowCloneMap(h, fr.container), LAMBDA cp :
              cowRebuild([cp.h EXCEPT ![cp.v.a].m = MapPut(@, fr.key, updated)],
                         stack, i - 1, cp.v))
         ELSE Bind(shallowCloneSlice(h, fr.container), LAMBDA cp :
              cowRebuild([cp.h EXCEPT ![cp.v.a].e[fr.index + 1] = updated],
                         stack, i - 1, cp.v)))

\* a set at the path that writes into the containers it finds there
cowSetInPlace(h, root, tokens, newVal) ==
    IF Len(tokens) = 0 THEN Ok(h, newVal)
    ELSE jpSetIn(h, root, tokens, newVal)

\* cowSetAtPath: [ok, h, v]
cowSetAtPath(h, root, tokens, newVal) ==
    IF Len(tokens) = 0 THEN Ok(h, newVal)
    ELSE Bind(cowWalk(h, root, tokens, <<>>), LAMBDA w :
         IF ~w.ok THEN Fail(h)
         ELSE cowRebuild(h, w.stack, Len(w.stack), newVal))

\* ensureAddedOnlyParent: store the container `created` under tok in a clone
\* of the map current, and put the clone at tokens[:i] of out
ensureStore(h, out, current, tokens, i, tok, created) ==
    Bind(shallowCloneMap(h, current), LAMBDA cp :
         cowSetAtPath([cp.h EXCEPT ![cp.v.a].m = MapPut(@, tok, created)],
                      out, SubSeq(tokens, 1, i), cp.v))

RECURSIVE ensureLoop(_, _, _, _, _, _)
\* ensureAddedOnlyParent: the loop over the tokens, from the 0-based position i
ensureLoop(h, out, current, tokens, i, wantArray) ==
    IF i >= Len(tokens) THEN Ok(h, out)
    ELSE Bind(At0(tokens, i), LAMBDA tok :
         Bind(i = Len(tokens) - 1, LAMBDA last :
         IF current.t # "map" THEN Fail(h)
         ELSE IF tok \notin DOMAIN h[current.a].m
         THEN Bind(NewContainer(h, last /\ wantArray), LAMBDA created :
              Bind(ensureStore(created.h, out, current, tokens, i, tok, created.v), LAMBDA r :
              IF ~r.ok THEN Fail(r.h)
              ELSE ensureLoop(r.h, r.v, created.v, tokens, i + 1, wantArray)))
         ELSE Bind(h[current.a].m[tok], LAMBDA child :
              IF ~last \/ (child.t = "arr" /\ wantArray) \/ (child.t = "map" /\ ~wantArray)
              THEN ensureLoop(h, out, child, tokens, i + 1, wantArray)
              ELSE Bind(NewContainer(h, wantArray), LAMBDA desired :
                   Bind(ensureStore(desired.h, out, current, tokens, i, tok, desired.v), LAMBDA r :
                   IF ~r.ok THEN Fail(r.h)
                   ELSE ensureLoop(r.h, r.v, desired.v, tokens, i + 1, wantArray))))))

\* ensureAddedOnlyParent: [ok, h, v]
ensureAddedOnlyParent(h, root, tokens, wantArray) ==
    IF Len(tokens) = 0 THEN NewContainer(h, wantArray) @@ [ok |-> TRUE]
    ELSE IF root = Nil
    THEN Bind(NewContainer(h, FALSE), LAMBDA o :
              ensureLoop(o.h, o.v, o.v, tokens, 0, wantArray))
    ELSE ensureLoop(h, root, root, tokens, 0, wantArray)

RECURSIVE groupAddsLenient(_, _, _)
\* a grouping that leaves out an add at the document root
groupAddsLenient(patch, i, groups) ==
    IF i > Len(patch) THEN [ok |-> TRUE, groups |-> groups]
    ELSE Bind(patch[i], LAMBDA op :
         IF op.op # "add" \/ op.path = <<>> THEN groupAddsLenient(patch, i + 1, groups)
         ELSE Bind(jpNew(op.path), LAMBDA tokens :
              IF ~tokens.ok \/ Len(tokens.toks) = 0 THEN [ok |-> FALSE, groups |-> <<>>]
              ELSE Bind(ParentToks(tokens.toks), LAMBDA parent :
                   Bind(jpString(parent), LAMBDA key :
                   groupAddsLenient(patch, i + 1,
                             MapPut(groups, key,
                                    (IF key \in DOMAIN groups THEN groups[key] ELSE <<>>)
                                    \o <<[parent |-> parent,
                                          child |-> tokens.toks[Len(tokens.toks)],
                                          value |-> op.value, order |-> i - 1]>>))))))

RECURSIVE groupAdds(_, _, _)
\* ExtractAdded: the add operations grouped by parent pointer, in patch order:
\* [ok, groups]
groupAdds(patch, i, groups) ==
    IF i > Len(patch) THEN [ok |-> TRUE, groups |-> groups]
    ELSE Bind(patch[i], LAMBDA op :
         IF op.op # "add" THEN groupAdds(patch, i + 1, groups)
         ELSE IF op.path = <<>> THEN [ok |-> FALSE, groups |-> <<>>]
         ELSE Bind(jpNew(op.path), LAMBDA tokens :
              IF ~tokens.ok \/ Len(tokens.toks) = 0 THEN [ok |-> FALSE, groups |-> <<>>]
              ELSE Bind(ParentToks(tokens.toks), LAMBDA parent :
                   Bind(jpString(parent), LAMBDA key :
                   groupAdds(patch, i + 1,
                             MapPut(groups, key,
                                    (IF key \in DOMAIN groups THEN groups[key] ELSE <<>>)
                                    \o <<[parent |-> parent,
                                          child |-> tokens.toks[Len(tokens.toks)],
                                          value |-> op.value, order |-> i - 1]>>))))))

RECURSIVE sortInner(_, _, _)
RECURSIVE sortOuter(_, _)
\* the two nested loops that sort a slice by exchanging s[i] and s[j], j > i,
\* when s[i] is greater (entries are compared on their field k)
sortInner(s, i, j) ==
    IF j > Len(s) THEN s
    ELSE sortInner(IF s[i].k > s[j].k THEN [s EXCEPT ![i] = s[j], ![j] = s[i]] ELSE s, i, j + 1)
sortOuter(s, i) == IF i >= Len(s) THEN s ELSE sortOuter(sortInner(s, i, i + 1), i + 1)

\* ExtractAdded: orderParents, built in the order o of a range over
\* parentByKey, then sorted by depth
orderParents(groups, o) ==
    sortOuter([i \in 1..Len(o) |-> [k |-> Len(groups[o[i]][1].parent), key |-> o[i],
                                    tokens |-> groups[o[i]][1].parent]], 1)

\* the result of a failed ExtractAdded: nil, nil, err
EFail(h) == [ok |-> FALSE, h |-> h, remaining |-> Nil, addedOnly |-> Nil]

\* an object case that fills addedOnly and leaves the parent in remaining as
\* it is
extractObjectKeep(h, remaining, addedOnly, parentTokens, ops, pa) ==
    Bind({ops[i].child : i \in 1..Len(ops)}, LAMBDA final :
    Bind(ensureAddedOnlyParent(h, addedOnly, parentTokens, FALSE), LAMBDA ao :
    IF ~ao.ok THEN EFail(ao.h)
    ELSE Bind(jpGetToks(ao.h, ao.v, parentTokens), LAMBDA aoPar :
         IF ~aoPar.ok \/ aoPar.v.t # "map" THEN EFail(ao.h)
         ELSE [ok |-> TRUE,
               h |-> [ao.h EXCEPT ![aoPar.v.a].m =
                         [k \in (DOMAIN @) \cup final |->
                             IF k \notin final THEN @[k]
                             ELSE IF k \in DOMAIN ao.h[pa.a].m
                                  THEN ao.h[pa.a].m[k] ELSE Nil]],
               remaining |-> remaining, addedOnly |-> ao.v])))

\* ExtractAdded, case map[string]any of the switch on parentAfter
extractObject(h, remaining, addedOnly, parentTokens, ops, pa) ==
    IF \E i \in 1..Len(ops) : ParseArrayIndex(ops[i].child).ok \/ ops[i].child = Dash
    THEN EFail(h)
    ELSE Bind({ops[i].child : i \in 1..Len(ops)}, LAMBDA final :
         Bind(jpGetToks(h, remaining, parentTokens), LAMBDA parentRem :
         IF ~parentRem.ok \/ parentRem.v.t # "map" THEN EFail(h)
         ELSE Bind(shallowCloneMap(h, parentRem.v), LAMBDA newMap :
              Bind(cowSetAtPath([newMap.h EXCEPT ![newMap.v.a].m =
                                     [k \in (DOMAIN @) \ final |-> @[k]]],
                                remaining, parentTokens, newMap.v), LAMBDA rem :
              IF ~rem.ok THEN EFail(rem.h)
              ELSE Bind(ensureAddedOnlyParent(rem.h, addedOnly, parentTokens, FALSE), LAMBDA ao :
                   IF ~ao.ok THEN EFail(ao.h)
                   ELSE Bind(jpGetToks(ao.h, ao.v, parentTokens), LAMBDA aoPar :
                        IF ~aoPar.ok \/ aoPar.v.t # "map" THEN EFail(ao.h)
                        ELSE [ok |-> TRUE,
                              h |-> [ao.h EXCEPT ![aoPar.v.a].m =
                                        [k \in (DOMAIN @) \cup final |->
                                            IF k \notin final THEN @[k]
                                            ELSE IF k \in DOMAIN ao.h[pa.a].m
                                                 THEN ao.h[pa.a].m[k] ELSE Nil]],
                              remaining |-> rem.v, addedOnly |-> ao.v]))))))

RECURSIVE resolveIdxFlat(_, _, _, _, _)
\* an index resolution in which every '-' resolves to baseLen
resolveIdxFlat(ops, i, baseLen, appendCount, tmp) ==
    IF i > Len(ops) THEN [ok |-> TRUE, tmp |-> tmp, appendCount |-> appendCount]
    ELSE IF ops[i].child = Dash
    THEN resolveIdxFlat(ops, i + 1, baseLen, appendCount + 1,
                        Append(tmp, [idx |-> baseLen, order |-> ops[i].order]))
    ELSE Bind(ParseArrayIndex(ops[i].child), LAMBDA uidx :
         IF ~uidx.ok \/ uidx.i >= baseLen
         THEN [ok |-> FALSE, tmp |-> <<>>, appendCount |-> appendCount]
         ELSE resolveIdxFlat(ops, i + 1, baseLen, appendCount,
                             Append(tmp, [idx |-> uidx.i, order |-> ops[i].order])))

RECURSIVE resolveIdx(_, _, _, _, _)
\* ExtractAdded, array parent: '-' resolves to baseLen + appendCount, a
\* numeric child must be below baseLen: [ok, tmp, appendCount]
resolveIdx(ops, i, baseLen, appendCount, tmp) ==
    IF i > Len(ops) THEN [ok |-> TRUE, tmp |-> tmp, appendCount |-> appendCount]
    ELSE IF ops[i].child = Dash
    THEN resolveIdx(ops, i + 1, baseLen, appendCount + 1,
                    Append(tmp, [idx |-> baseLen + appendCount, order |-> ops[i].order]))
    ELSE Bind(ParseArrayIndex(ops[i].child), LAMBDA uidx :
         IF ~uidx.ok \/ uidx.i >= baseLen
         THEN [ok |-> FALSE, tmp |-> <<>>, appendCount |-> appendCount]
         ELSE resolveIdx(ops, i + 1, baseLen, appendCount,
                         Append(tmp, [idx |-> uidx.i, order |-> ops[i].order])))

\* a filter that keeps every element from the 0-based position i on
filterNone(e, i, removeSet) == SubSeq(e, i + 1, Len(e))

RECURSIVE filterOut(_, _, _)
\* the elements of e, from 0-based position i on, whose position is not in removeSet
filterOut(e, i, removeSet) ==
    IF i >= Len(e) THEN <<>>
    ELSE (IF i \in removeSet THEN <<>> ELSE <<At0(e, i)>>) \o filterOut(e, i + 1, removeSet)

\* ExtractAdded: idxs, built in an order of a range over final, then sorted
\* ascending
sortedIdxs(final) ==
    Bind(CHOOSE o \in Orders(final) : TRUE, LAMBDA o :
    Bind(sortOuter([i \in 1..Len(o) |-> [k |-> o[i]]], 1), LAMBDA s :
         [i \in 1..Len(s) |-> s[i].k]))

\* ExtractAdded, case []any of the switch on parentAfter
extractArray(h, remaining, addedOnly, parentTokens, ops, pa) ==
    Bind(pa.n - Len(ops), LAMBDA baseLen :
    IF baseLen < 0 THEN EFail(h)
    ELSE Bind(resolveIdx(ops, 1, baseLen, 0, <<>>), LAMBDA res :
    IF ~res.ok THEN EFail(h)
    ELSE Bind({res.tmp[i].idx : i \in 1..Len(res.tmp)}, LAMBDA final :
    IF \E idx \in final : idx >= baseLen + res.appendCount THEN EFail(h)
    ELSE Bind(jpGetToks(h, remaining, parentTokens), LAMBDA parentRem :
    IF ~parentRem.ok \/ parentRem.v.t # "arr" THEN EFail(h)
    ELSE Bind(filterOut(SubSeq(h[parentRem.v.a].e, 1, parentRem.v.n), 0, final), LAMBDA filtered :
         Bind(cowSetAtPath(Append(h, ArrCell(filtered)), remaining, parentTokens,
                           ArrRef(Len(h) + 1, Len(filtered))), LAMBDA rem :
         IF ~rem.ok THEN EFail(rem.h)
         ELSE Bind(ensureAddedOnlyParent(rem.h, addedOnly, parentTokens, TRUE), LAMBDA ao :
              IF ~ao.ok THEN EFail(ao.h)
              ELSE Bind(sortedIdxs(final), LAMBDA idxs :
                   IF \E i \in 1..Len(idxs) : idxs[i] < 0 \/ idxs[i] >= pa.n THEN EFail(ao.h)
                   ELSE Bind([i \in 1..Len(idxs) |-> ao.h[pa.a].e[idxs[i] + 1]], LAMBDA values :
                        Bind(cowSetAtPath(Append(ao.h, ArrCell(values)), ao.v, parentTokens,
                                          ArrRef(Len(ao.h) + 1, Len(values))), LAMBDA set :
                        IF ~set.ok THEN EFail(set.h)
                        ELSE [ok |-> TRUE, h |-> set.h, remaining |-> rem.v,
                              addedOnly |-> set.v]))))))))))

RECURSIVE extractLoop(_, _, _, _, _, _, _)
\* ExtractAdded: the loop over the parent groups, from entry i of parents
extractLoop(h, after, remaining, addedOnly, groups, parents, i) ==
    IF i > Len(parents) THEN [ok |-> TRUE, h |-> h, remaining |-> remaining, addedOnly |-> addedOnly]
    ELSE Bind(parents[i].tokens, LAMBDA parentTokens :
         Bind(groups[parents[i].key], LAMBDA ops :
         Bind(jpGetToks(h, after, parentTokens), LAMBDA parentAfter :
         IF ~parentAfter.ok THEN EFail(h)
         ELSE Bind(IF parentAfter.v.t = "map"
                   THEN extractObject(h, remaining, addedOnly, parentTokens, ops, parentAfter.v)
                   ELSE IF parentAfter.v.t = "arr"
                   THEN extractArray(h, remaining, addedOnly, parentTokens, ops, parentAfter.v)
                   ELSE EFail(h), LAMBDA r :
              IF ~r.ok THEN r
              ELSE extractLoop(r.h, after, r.remaining, r.addedOnly, groups, parents, i + 1)))))

\* ExtractAdded: the set of results [ok, h, remaining, addedOnly] the call may
\* return (one per iteration order of parentByKey)
ExtractAdded(h, after, patch) ==
    Bind(IF after.t = "map" THEN shallowCloneMap(h, after)
         ELSE IF after.t = "arr" THEN shallowCloneSlice(h, after)
         ELSE [h |-> h, v |-> after], LAMBDA root :
    Bind(groupAdds(patch, 1, <<>>), LAMBDA g :
    IF ~g.ok THEN {EFail(root.h)}
    ELSE IF DOMAIN g.groups = {}
    THEN {[ok |-> TRUE, h |-> root.h, remaining |-> root.v, addedOnly |-> Nil]}
    ELSE {extractLoop(root.h, after, root.v, Nil, g.groups, orderParents(g.groups, o), 1) :
          o \in Orders(DOMAIN g.groups)}))


\* ------------------------------------------------------------- the inputs

kO == <<"o">>
kR == <<"r">>
kX == <<"x">>
kY == <<"y">>
kQ == <<"q">>
kZ == <<"z">>
P(toks) == jpString(toks)

\* {"o": {"x": "A"}, "r": ["A", "B", "C"]}
DocObject == PM((kO :> PM(kX :> PS("A"))) @@ (kR :> PA(<<PS("A"), PS("B"), PS("C")>>)))
\* and ["A", "B"]
Docs == {DocObject, PA(<<PS("A"), PS("B")>>)}

\* the operations of the caller's patches, kind by kind
Ops ==
    [op : {"add"},
     path : {<<>>, P(<<kO, kY>>), P(<<kO, kY, kX>>), P(<<kR, <<"1">>>>), P(<<kR, Dash>>),
             P(<<kR, <<"3">>>>), P(<<kR, <<"4">>>>), P(<<kQ, kZ>>), P(<<<<"1">>>>)},
     from : {<<>>}, value : {PS("X"), PM(kX :> PS("A")), PA(<<PS("A")>>)}]
    \cup [op : {"add"}, path : {P(<<kO, Dash>>)}, from : {<<>>}, value : {PS("X")}]
    \cup [op : {"remove"},
          path : {P(<<kO, kX>>), P(<<kO, kY, kX>>), P(<<kR, <<"0">>>>), P(<<kQ>>), P(<<<<"0">>>>)},
          from : {<<>>}, value : {PS("null")}]
    \cup [op : {"replace"}, path : {<<>>, P(<<kO, kX>>), P(<<kR, <<"0">>>>), P(<<kQ>>)},
          from : {<<>>}, value : {PS("X"), PM(kX :> PS("A"))}]
    \cup [op : {"test"}, path : {P(<<kO, kX>>), P(<<kQ>>)}, from : {<<>>},
          value : {PS("A"), PS("X"), PM(kX :> PS("A"))}]
    \cup [op : {"move"},
          path : {P(<<kO, kY>>), P(<<kR, <<"1">>>>), P(<<kR, Dash>>), P(<<kR, <<"3">>>>)},
          from : {P(<<kO, kX>>), P(<<kR, <<"0">>>>), P(<<kQ>>)}, value : {PS("null")}]
    \cup [op : {"copy"},
          path : {P(<<kO, kY>>), P(<<kR, <<"0">>>>), P(<<kR, Dash>>), P(<<kQ, kZ>>), P(<<kQ>>)},
          from : {P(<<kO>>), P(<<kO, kX>>), P(<<kQ>>)}, value : {PS("null")}]
    \cup [op : {"patch"}, path : {<<>>}, from : {<<>>}, value : {PS("null")}]

Patches == UNION {[1..n -> Ops] : n \in 0..MaxOps}

RECURSIVE UnmarshalPatch(_, _, _, _)
\* the caller's patch, decoded from JSON: every value a fresh tree
UnmarshalPatch(h, pp, i, acc) ==
    IF i > Len(pp) THEN [h |-> h, patch |-> acc]
    ELSE Bind(Unmarshal(h, pp[i].value), LAMBDA r :
              UnmarshalPatch(r.h, pp, i + 1, Append(acc, [pp[i] EXCEPT !.value = r.v])))

\* the documents given to the differ: arrays (with repeated, reordered and
\* container elements), objects (with keys that need escaping), scalars
NewElems == {PS("A"), PS("1"), PA(<<PS("A")>>)}
Trees ==
    {PA(e) : e \in UNION {[1..n -> NewElems] : n \in 0..MaxArr}}
    \cup {PM(m) : m \in UNION {[K -> {PS("A"), PS("true"), PA(<<PS("A"), PS("1")>>),
                                      PA(<<PS("1"), PS("A")>>), PM(kX :> PS("A"))}] :
                               K \in SUBSET {kX, <<"~", "/">>}}}
    \cup {PS("A"), PS("null")}

\* a document given to ExtractAdded:
\* {"o": {"x": "A", "y": {"z": "A"}}, "r": ["A", "B", "C"]}
AfterObject ==
    PM((kO :> PM((kX :> PS("A")) @@ (kY :> PM(kZ :> PS("A")))))
       @@ (kR :> PA(<<PS("A"), PS("B"), PS("C")>>)))

\* the serialised form of a patch, of a Delta list, of a Diff
ReifyPatch(h, patch) == [i \in 1..Len(patch) |-> [patch[i] EXCEPT !.value = Reify(h, @)]]
ReifyDeltas(h, ds) ==
    [i \in 1..Len(ds) |-> [ds[i] EXCEPT !.Before = Reify(h, @), !.After = Reify(h, @)]]
ReifyDiff(h, d) ==
    [Deltas |-> ReifyDeltas(h, d.Deltas), forward |-> ReifyPatch(h, d.forward),
     reverse |-> ReifyPatch(h, d.reverse)]

\* ------------------------------------------------------------------ state

VARIABLES
    heap,     \* the Go heap: cells of maps and of backing arrays
    doc,      \* the caller's document
    patch,    \* the caller's patch
    doc0,     \* the JSON text of the document before any call
    patch0,   \* the JSON text of the patch before any call
    phase,    \* what the caller did so far
    diff,     \* the Diff that Prepare returned
    diff0,    \* its JSON text when Prepare returned
    arg,      \* the document passed to the last Diff.Apply / Diff.Revert
    out,      \* the value the last call returned
    first,    \* the result of the first Diff.Apply on a copy of the original
    calls,    \* number of Diff.Apply and Diff.Revert calls so far
    want,     \* the target document given to New
    last      \* a record of the last call

vars == <<heap, doc, patch, doc0, patch0, phase, diff, diff0, arg, out, first, calls, want, last>>

NoCall ==
    [call |-> "none", ok |-> TRUE, err |-> NoErr, ran |-> <<>>, at |-> 0,
     argBefore |-> PS("null"), argAfter |-> PS("null"), res |-> PS("null"),
     patchAfter |-> <<>>, sameRoot |-> FALSE, onCopy |-> FALSE, added |-> PS("null")]

NoFirst == [set |-> FALSE, ok |-> FALSE, res |-> PS("null")]

NoWant == [set |-> FALSE, v |-> PS("null")]

Init ==
    \E d \in Docs, pp \in Patches :
        Bind(Unmarshal(<<>>, d), LAMBDA rd :
        Bind(UnmarshalPatch(rd.h, pp, 1, <<>>), LAMBDA rp :
            /\ heap = rp.h
            /\ doc = rd.v
            /\ patch = rp.patch
            /\ doc0 = d
            /\ patch0 = pp
            /\ phase = "init"
            /\ diff = NoDiff
            /\ diff0 = NoDiff
            /\ arg = Nil
            /\ out = Nil
            /\ first = NoFirst
            /\ calls = 0
            /\ want = NoWant
            /\ last = NoCall))

\* the caller holds two documents a and b and no patch yet
InitNew ==
    \E a \in Trees, b \in Trees :
        Bind(Unmarshal(<<>>, a), LAMBDA rd :
            /\ heap = rd.h
            /\ doc = rd.v
            /\ patch = <<>>
            /\ doc0 = a
            /\ patch0 = <<>>
            /\ phase = "new"
            /\ diff = NoDiff
            /\ diff0 = NoDiff
            /\ arg = Nil
            /\ out = Nil
            /\ first = NoFirst
            /\ calls = 0
            /\ want = [set |-> TRUE, v |-> b]
            /\ last = NoCall)

\* the caller calls New(doc, b), b given as JSON text; the patch it gets
\* carries values of the normalised copy of b
CallNew ==
    /\ phase = "new"
    /\ \E pp \in New(Reify(heap, doc), want.v) :
        Bind(UnmarshalPatch(heap, pp, 1, <<>>), LAMBDA rp :
        /\ heap' = rp.h
        /\ patch' = rp.patch
        /\ patch0' = pp
        /\ last' = [NoCall EXCEPT !.call = "New", !.argBefore = Reify(heap, doc),
                        !.argAfter = Reify(rp.h, doc), !.patchAfter = pp])
    /\ phase' = "diffed"
    /\ UNCHANGED <<doc, doc0, diff, diff0, arg, out, first, calls, want>>

\* the caller calls Apply(doc, patch)
CallApply ==
    /\ phase \in {"init", "diffed"}
    /\ Bind(Apply(heap, doc, patch), LAMBDA r :
        /\ heap' = r.h
        /\ out' = r.v
        /\ last' = [NoCall EXCEPT !.call = "Apply", !.ok = r.ok, !.err = r.err,
                        !.ran = r.ran, !.argBefore = Reify(heap, doc),
                        !.argAfter = Reify(r.h, doc), !.res = Reify(r.h, r.v),
                        !.patchAfter = ReifyPatch(r.h, patch), !.sameRoot = (r.v = doc)])
    /\ phase' = "applied"
    /\ UNCHANGED <<doc, patch, doc0, patch0, diff, diff0, arg, first, calls, want>>

\* the caller calls ApplyInPlace(doc, patch)
CallApplyInPlace ==
    /\ phase = "init"
    /\ Bind(ApplyInPlace(heap, doc, patch), LAMBDA r :
        /\ heap' = r.h
        /\ out' = r.v
        /\ last' = [NoCall EXCEPT !.call = "ApplyInPlace", !.ok = r.ok, !.err = r.err,
                        !.ran = r.ran, !.argBefore = Reify(heap, doc),
                        !.argAfter = Reify(r.h, doc), !.res = Reify(r.h, r.v),
                        !.patchAfter = ReifyPatch(r.h, patch), !.sameRoot = (r.v = doc)])
    /\ phase' = "inplace"
    /\ UNCHANGED <<doc, patch, doc0, patch0, diff, diff0, arg, first, calls, want>>

\* the caller calls Prepare(doc, patch)
CallPrepare ==
    /\ phase = "init"
    /\ Bind(Prepare(heap, doc, patch), LAMBDA r :
        /\ heap' = r.h
        /\ diff' = r.diff
        /\ diff0' = ReifyDiff(r.h, r.diff)
        /\ last' = [NoCall EXCEPT !.call = "Prepare", !.ok = r.ok, !.at = r.at,
                        !.argBefore = Reify(heap, doc), !.argAfter = Reify(r.h, doc),
                        !.patchAfter = ReifyPatch(r.h, patch)]
        /\ phase' = IF r.ok THEN "prepared" ELSE "failed")
    /\ UNCHANGED <<doc, patch, doc0, patch0, arg, out, first, calls, want>>

\* the caller calls diff.Apply on its document, or on a fresh copy of the
\* original document
CallDiffApply ==
    /\ phase \in {"prepared", "reverted"}
    /\ calls < MaxCalls
    /\ \E onCopy \in BOOLEAN :
        Bind(IF onCopy THEN Unmarshal(heap, doc0) ELSE [h |-> heap, v |-> doc], LAMBDA c :
        Bind(DiffApply(c.h, diff, c.v), LAMBDA r :
            /\ heap' = r.h
            /\ arg' = c.v
            /\ out' = r.v
            /\ last' = [NoCall EXCEPT !.call = "Diff.Apply", !.ok = r.ok, !.err = r.err,
                            !.ran = r.ran, !.argBefore = Reify(c.h, c.v),
                            !.argAfter = Reify(r.h, c.v), !.res = Reify(r.h, r.v),
                            !.sameRoot = (r.v = c.v), !.onCopy = onCopy]
            /\ first' = IF onCopy /\ ~first.set
                        THEN [set |-> TRUE, ok |-> r.ok, res |-> Reify(r.h, r.v)]
                        ELSE first
            /\ phase' = IF r.ok THEN "forward" ELSE "failed"))
    /\ calls' = calls + 1
    /\ UNCHANGED <<doc, patch, doc0, patch0, diff, diff0, want>>

\* the caller calls diff.Revert on the document the last diff.Apply returned
CallDiffRevert ==
    /\ phase = "forward"
    /\ calls < MaxCalls
    /\ Bind(DiffRevert(heap, diff, out), LAMBDA r :
        /\ heap' = r.h
        /\ arg' = out
        /\ out' = r.v
        /\ last' = [NoCall EXCEPT !.call = "Diff.Revert", !.ok = r.ok, !.err = r.err,
                        !.ran = r.ran, !.argBefore = Reify(heap, out),
                        !.argAfter = Reify(r.h, out), !.res = Reify(r.h, r.v),
                        !.sameRoot = (r.v = out)]
        /\ phase' = IF r.ok THEN "reverted" ELSE "failed")
    /\ calls' = calls + 1
    /\ UNCHANGED <<doc, patch, doc0, patch0, diff, diff0, first, want>>

Next ==
    \/ CallApply
    \/ CallApplyInPlace
    \/ CallPrepare
    \/ CallDiffApply
    \/ CallDiffRevert

Spec == Init /\ [][Next]_vars

NextNew ==
    \/ CallNew
    \/ CallApply

SpecNew == InitNew /\ [][NextNew]_vars

\* the caller holds a patched document `after` and a patch: object and array
\* roots with nested parents (AfterObject, ["A", {"x": "A"}, "C"], ["A"]) and
\* the scalar "A"; adds on present and absent keys, inside and past the base
\* of an array, at the root, under a missing parent, and a non-add
InitExtract ==
    \E d \in {AfterObject, PA(<<PS("A"), PM(kX :> PS("A")), PS("C")>>), PA(<<PS("A")>>), PS("A")},
       pp \in UNION {[1..n ->
                    [op : {"add"},
                     path : {<<>>, P(<<kO>>), P(<<kX>>), P(<<kO, kX>>), P(<<kO, kY>>), P(<<kO, <<"w">>>>),
                             P(<<kO, kY, kZ>>), P(<<kO, <<"0">>>>), P(<<kQ, kZ>>), P(<<kR, Dash>>),
                             P(<<kR, <<"0">>>>), P(<<kR, <<"2">>>>), P(<<kR, <<"3">>>>), P(<<Dash>>),
                             P(<<<<"1">>>>), P(<<<<"1">>, kX>>)},
                     from : {<<>>}, value : {PS("X")}]
                    \cup [op : {"remove"}, path : {P(<<kO, kX>>)}, from : {<<>>}, value : {PS("null")}]] : n \in 0..MaxOps} :
        Bind(Unmarshal(<<>>, d), LAMBDA rd :
        Bind(UnmarshalPatch(rd.h, pp, 1, <<>>), LAMBDA rp :
            /\ heap = rp.h
            /\ doc = rd.v
            /\ patch = rp.patch
            /\ doc0 = d
            /\ patch0 = pp
            /\ phase = "after"
            /\ diff = NoDiff
            /\ diff0 = NoDiff
            /\ arg = Nil
            /\ out = Nil
            /\ first = NoFirst
            /\ calls = 0
            /\ want = NoWant
            /\ last = NoCall))

\* the caller calls ExtractAdded(doc, patch): out is remaining, arg is addedOnly
CallExtractAdded ==
    /\ phase = "after"
    /\ \E r \in ExtractAdded(heap, doc, patch) :
        /\ heap' = r.h
        /\ out' = r.remaining
        /\ arg' = r.addedOnly
        /\ last' = [NoCall EXCEPT !.call = "ExtractAdded", !.ok = r.ok,
                        !.argBefore = Reify(heap, doc), !.argAfter = Reify(r.h, doc),
                        !.res = Reify(r.h, r.remaining), !.added = Reify(r.h, r.addedOnly),
                        !.patchAfter = ReifyPatch(r.h, patch)]
    /\ phase' = "extracted"
    /\ UNCHANGED <<doc, patch, doc0, patch0, diff, diff0, first, calls, want>>

NextExtract == CallExtractAdded

SpecExtract == InitExtract /\ [][NextExtract]_vars

\* the caller holds a document and a patch of adds: adds of new keys (scalars
\* and empty containers), adds into a container an earlier add made, appends,
\* and adds on an existing key or at a numeric index
InitUndo ==
    \E d \in {DocObject, PA(<<PS("A"), PM(kX :> PS("A"))>>)},
       pp \in UNION {[1..n ->
                    [op : {"add"},
                     path : {P(<<kO, kY>>), P(<<kQ>>), P(<<kR, Dash>>), P(<<Dash>>), P(<<<<"1">>, kY>>),
                             P(<<kO, kX>>), P(<<kR, <<"0">>>>)},
                     from : {<<>>}, value : {PS("X")}]
                    \cup [op : {"add"}, path : {P(<<kQ>>)}, from : {<<>>}, value : {PM(<<>>), PA(<<>>)}]
                    \cup [op : {"add"}, path : {P(<<kQ, kZ>>), P(<<kQ, Dash>>)}, from : {<<>>}, value : {PS("X")}]] : n \in 0..MaxOps} :
        Bind(Unmarshal(<<>>, d), LAMBDA rd :
        Bind(UnmarshalPatch(rd.h, pp, 1, <<>>), LAMBDA rp :
            /\ heap = rp.h
            /\ doc = rd.v
            /\ patch = rp.patch
            /\ doc0 = d
            /\ patch0 = pp
            /\ phase = "init"
            /\ diff = NoDiff
            /\ diff0 = NoDiff
            /\ arg = Nil
            /\ out = Nil
            /\ first = NoFirst
            /\ calls = 0
            /\ want = NoWant
            /\ last = NoCall))

\* the caller calls ExtractAdded(after, patch) on the document that
\* Apply(doc, patch) returned: arg is `after`, out is remaining
CallExtractAddedOfApplied ==
    /\ phase = "applied"
    /\ last.ok
    /\ \E r \in ExtractAdded(heap, out, patch) :
        /\ heap' = r.h
        /\ arg' = out
        /\ out' = r.remaining
        /\ last' = [NoCall EXCEPT !.call = "ExtractAdded", !.ok = r.ok,
                        !.argBefore = Reify(heap, out), !.argAfter = Reify(r.h, out),
                        !.res = Reify(r.h, r.remaining), !.added = Reify(r.h, r.addedOnly),
                        !.patchAfter = ReifyPatch(r.h, patch)]
    /\ phase' = "undone"
    /\ UNCHANGED <<doc, patch, doc0, patch0, diff, diff0, first, calls, want>>

NextUndo ==
    \/ CallApply
    \/ CallExtractAddedOfApplied

SpecUndo == InitUndo /\ [][NextUndo]_vars


\* ------------------------------------------------------------- properties

\* Apply(d, pp) on a freshly decoded document and patch
FreshApply(d, pp) ==
    LET rd == Unmarshal(<<>>, d)
        rp == UnmarshalPatch(rd.h, pp, 1, <<>>)
        r == Apply(rp.h, rd.v, rp.patch)
    IN  [ok |-> r.ok, err |-> r.err, ran |-> r.ran, res |-> Reify(r.h, r.v)]

RECURSIVE Addrs(_, _, _)
\* the heap cells reachable from the value x
Addrs(h, x, d) ==
    IF x.t = "s" \/ d = 0 THEN {}
    ELSE IF x.t = "map"
         THEN {x.a} \cup UNION {Addrs(h, h[x.a].m[k], d - 1) : k \in DOMAIN h[x.a].m}
         ELSE {x.a} \cup UNION {Addrs(h, h[x.a].e[i], d - 1) : i \in 1..x.n}



\* C1: for all documents a and b, Apply(a, New(a, b)) succeeds and returns a
\* document deep-equal to b, whatever patch New returned.
C1_DifferRoundTrip ==
    (last.call = "Apply" /\ want.set) => (last.ok /\ last.res = want.v)

\* Apply ran a patch of New that removes from and adds to an array with a
\* repeated element whose elements were reordered, and returned b
C1_Witness ==
    /\ last.call = "Apply"
    /\ want.set
    /\ doc0.t = "arr" /\ want.v.t = "arr"
    /\ Len(doc0.e) = 3 /\ Len(want.v.e) = 3
    /\ doc0.e # want.v.e
    /\ \A x \in NewElems : Cardinality({i \in 1..3 : doc0.e[i] = x})
                             = Cardinality({i \in 1..3 : want.v.e[i] = x})
    /\ doc0.e[1] = doc0.e[2]
    /\ \E i, j \in 1..Len(patch0) : patch0[i].op = "remove" /\ patch0[j].op = "add"
    /\ last.ran = [i \in 1..Len(patch0) |-> i]
    /\ last.res = want.v

\* C2: when Prepare(document, patch) succeeded, Diff.Apply on a copy of the
\* document succeeds and returns a document deep-equal to Apply(document, patch).
C2_ForwardEquivalence ==
    (last.call = "Diff.Apply" /\ calls = 1 /\ last.onCopy)
        => LET r == FreshApply(doc0, patch0)
           IN  r.ok /\ last.ok /\ last.res = r.res

\* C3: when Prepare(document, patch) succeeded, Diff.Revert of the result of
\* Diff.Apply(document) succeeds and returns a document deep-equal to a
\* snapshot of the document taken before Prepare.
C3_Invertibility ==
    (last.call = "Diff.Revert" /\ calls = 2) => (last.ok /\ last.res = doc0)

\* C4: after Apply(document, patch) returned, with a result or with an error,
\* the caller's document is deep-equal to what it was before the call.
C4_ApplyKeepsDocument ==
    last.call = "Apply" => (last.argAfter = last.argBefore /\ last.argAfter = doc0)

\* Apply failed on its second operation, after a first one that changes the document
C4_Witness ==
    /\ last.call = "Apply"
    /\ ~last.ok
    /\ last.ran = <<1, 2>>
    /\ patch0[1].op \in OpKinds \ {"test"}
    /\ last.argAfter = doc0

\* C5: after Apply(document, patch) returned, every value of the patch is
\* deep-equal to what it was before the call.
C5_ApplyKeepsPatch ==
    last.call = "Apply" => last.patchAfter = patch0

RECURSIVE Steps(_, _, _, _, _)
\* operations i..k of the patch, one after the other, each on the document
\* the one before it returned: [ok, h, v], ok iff every one of them succeeded
Steps(h, d, pp, i, k) ==
    IF i > k THEN Ok(h, d)
    ELSE Bind(applyOp(h, d, pp[i]), LAMBDA r :
         IF r.ok THEN Steps(r.h, r.v, pp, i + 1, k) ELSE Fail(r.h))

\* operations 1..k of pp on a freshly decoded document d: [ok, res]
FreshSteps(d, pp, k) ==
    Bind(Unmarshal(<<>>, d), LAMBDA rd :
    Bind(UnmarshalPatch(rd.h, pp, 1, <<>>), LAMBDA rp :
    Bind(Steps(rp.h, rd.v, rp.patch, 1, k), LAMBDA r :
         [ok |-> r.ok, res |-> Reify(r.h, r.v)])))

\* C6: Apply and ApplyInPlace execute the operations in list order, each on the
\* document the previous one produced: the operations executed are 1..k, all
\* but the last of them succeeded; a call that succeeds executed all of them
\* and returns the document the last one produced; a call that fails stopped
\* at the first failing operation and returns an error and no document.
C6_OrderAndFailFast ==
    last.call \in {"Apply", "ApplyInPlace"} =>
        LET k == Len(last.ran) IN
        /\ last.ran = [i \in 1..k |-> i]
        /\ last.ok => /\ k = Len(patch0)
                      /\ FreshSteps(doc0, patch0, k).ok
                      /\ last.res = FreshSteps(doc0, patch0, k).res
                      /\ ~last.err.failed
        /\ ~last.ok => /\ k >= 1
                       /\ FreshSteps(doc0, patch0, k - 1).ok
                       /\ ~FreshSteps(doc0, patch0, k).ok
                       /\ last.err.failed
                       /\ last.res = PS("null")

\* the first operation of a longer patch failed: the second one did not run
C6_Witness ==
    /\ last.call \in {"Apply", "ApplyInPlace"}
    /\ ~last.ok
    /\ last.ran = <<1>>
    /\ Len(patch0) = 2

C8_DiffImmutable ==
    /\ ReifyDiff(heap, diff) = diff0
    /\ (last.call = "Diff.Apply" /\ last.onCopy /\ first.set)
           => (last.ok = first.ok /\ last.res = first.res)

\* C9: Diff.Apply and Diff.Revert leave the document passed to them as it was,
\* and a call that ran an operation returns a tree with another root.
C9_DiffCallsKeepDocument ==
    last.call \in {"Diff.Apply", "Diff.Revert"} =>
        /\ last.argAfter = last.argBefore
        /\ (last.ok /\ arg.t # "s" /\ last.ran # <<>>) => ~last.sameRoot

\* C10: after Prepare(original, patch) returned, with a Diff or with an error,
\* original is deep-equal to what it was before the call, and no Before or
\* After value of a Delta shares a map or a backing array with original.
C10_PrepareKeepsOriginal ==
    last.call = "Prepare" =>
        /\ last.argAfter = last.argBefore
        /\ last.argAfter = doc0
        /\ \A i \in 1..Len(diff.Deltas) :
               Addrs(heap, doc, MaxDepth)
                   \cap (Addrs(heap, diff.Deltas[i].Before, MaxDepth)
                         \cup Addrs(heap, diff.Deltas[i].After, MaxDepth)) = {}

\* Prepare succeeded and recorded a Delta whose Before value is a container
\* that was read from the document
C10_Witness ==
    /\ last.call = "Prepare"
    /\ last.ok
    /\ \E i \in 1..Len(diff.Deltas) : diff.Deltas[i].Before.t # "s"
    /\ Reify(heap, doc) = doc0

RECURSIVE SimSteps(_, _, _, _)
\* the simulation of Prepare, operation by operation from i on: the index of
\* the first operation it fails on, 0 when it fails on none
SimSteps(h, d, pp, i) ==
    IF i > Len(pp) THEN 0
    ELSE Bind(prepareOp(h, d, pp[i]), LAMBDA r :
         IF r.ok THEN SimSteps(r.h, r.v, pp, i + 1) ELSE i)

\* the simulation of pp on a freshly decoded document d
FreshSim(d, pp) ==
    Bind(Unmarshal(<<>>, d), LAMBDA rd :
    Bind(UnmarshalPatch(rd.h, pp, 1, <<>>), LAMBDA rp :
         SimSteps(rp.h, rd.v, rp.patch, 1)))

\* C11: Prepare is all-or-nothing: it returns an error exactly when an
\* operation of the patch fails during the simulation, whatever the number of
\* operations that succeeded before it, and the Diff it returns with the error
\* has no Deltas and empty forward and reverse patches.
C11_PrepareAllOrNothing ==
    last.call = "Prepare" =>
        /\ ~last.ok <=> FreshSim(doc0, patch0) # 0
        /\ ~last.ok => /\ last.at = FreshSim(doc0, patch0)
                       /\ diff = NoDiff
                       /\ diff0 = NoDiff

\* Prepare failed on the second operation, after a first operation that
\* changes the document and records a Delta
C11_Witness ==
    /\ last.call = "Prepare"
    /\ ~last.ok
    /\ last.at = 2
    /\ patch0[1].op \in OpKinds \ {"test"}
    /\ diff.Deltas = <<>> /\ diff.forward = <<>> /\ diff.reverse = <<>>

\* ---------------------------------------------- single operations, on JSON trees

RECURSIVE TreeGet(_, _)
\* the node of the JSON tree pv that the tokens lead to: [ok, v]
TreeGet(pv, toks) ==
    IF toks = <<>> THEN [ok |-> TRUE, v |-> pv]
    ELSE IF pv.t = "map"
    THEN IF Head(toks) \in DOMAIN pv.m THEN TreeGet(pv.m[Head(toks)], Tail(toks))
         ELSE [ok |-> FALSE, v |-> PS("null")]
    ELSE IF pv.t = "arr" /\ ParseArrayIndex(Head(toks)).ok
                         /\ ParseArrayIndex(Head(toks)).i < Len(pv.e)
    THEN TreeGet(pv.e[ParseArrayIndex(Head(toks)).i + 1], Tail(toks))
    ELSE [ok |-> FALSE, v |-> PS("null")]

RECURSIVE TreePut(_, _, _)
\* the JSON tree pv with the node the tokens lead to replaced by nv, and
\* nothing else changed
TreePut(pv, toks, nv) ==
    IF toks = <<>> THEN nv
    ELSE IF pv.t = "map"
    THEN PM([pv.m EXCEPT ![Head(toks)] = TreePut(@, Tail(toks), nv)])
    ELSE PA([pv.e EXCEPT ![ParseArrayIndex(Head(toks)).i + 1] = TreePut(@, Tail(toks), nv)])

\* the sequence e with x inserted before 0-based position i
InsertAt(e, i, x) == SubSeq(e, 1, i) \o <<x>> \o SubSeq(e, i + 1, Len(e))

\* the last operation an Apply / ApplyInPlace call executed, and the document
\* it was executed on
LastOp == patch0[Len(last.ran)]
LastToks == jpNew(LastOp.path).toks
LastFromToks == jpNew(LastOp.from).toks
DocBefore == FreshSteps(doc0, patch0, Len(last.ran) - 1).res
Ran(kind) ==
    /\ last.call \in {"Apply", "ApplyInPlace"}
    /\ Len(last.ran) >= 1
    /\ LastOp.op = kind

\* C12: add at a numeric index i of an array of length n: when i <= n the
\* operation succeeds and the array has length n + 1, holds the value at i,
\* keeps elements 0..i-1 and has elements i..n-1 one position up (nothing
\* else of the document changes); when i > n the operation fails.
C12_AddAtArrayIndex ==
    Ran("add") =>
        LET parent == TreeGet(DocBefore, ParentToks(LastToks))
            idx == ParseArrayIndex(LastToks[Len(LastToks)])
        IN  (LastToks # <<>> /\ parent.ok /\ parent.v.t = "arr" /\ idx.ok) =>
                IF idx.i <= Len(parent.v.e)
                THEN /\ last.ok
                     /\ last.res = TreePut(DocBefore, ParentToks(LastToks),
                                           PA(InsertAt(parent.v.e, idx.i, LastOp.value)))
                ELSE ~last.ok

\* an add at index 1 of a three-element array: the value is at index 1, the
\* old elements 1 and 2 are at 2 and 3
C12_Witness ==
    /\ Ran("add")
    /\ last.ok
    /\ LastOp.path = P(<<kR, <<"1">>>>)
    /\ DocBefore.t = "map" /\ kR \in DOMAIN DocBefore.m
    /\ Len(DocBefore.m[kR].e) = 3
    /\ last.res.m[kR].e = <<DocBefore.m[kR].e[1], LastOp.value, DocBefore.m[kR].e[2],
                             DocBefore.m[kR].e[3]>>

\* the document is a JSON tree: json.Marshal can write it (it has no cycle)
IsTree(pv) == ~HasCycle(pv)

\* C13: in a document that is a JSON tree, at an existing index j of an
\* array, move inserts the value before j
\* (the elements from j on go one position up, after the source was removed),
\* whereas copy overwrites element j and leaves the length of the array as it
\* was.
C13_MoveInsertsCopyOverwrites ==
    /\ Ran("move") =>
        LET src == TreeGet(DocBefore, LastFromToks)
            mid == FreshSteps(doc0,
                              [patch0 EXCEPT ![Len(last.ran)] =
                                   Operation("remove", LastOp.from, <<>>, PS("null"))],
                              Len(last.ran)).res
            parent == TreeGet(mid, ParentToks(LastToks))
            idx == ParseArrayIndex(LastToks[Len(LastToks)])
        IN  (IsTree(DocBefore) /\ LastFromToks # <<>> /\ src.ok /\ LastToks # <<>> /\ parent.ok
             /\ parent.v.t = "arr" /\ idx.ok /\ idx.i < Len(parent.v.e)) =>
                /\ last.ok
                /\ last.res = TreePut(mid, ParentToks(LastToks),
                                      PA(InsertAt(parent.v.e, idx.i, src.v)))
    /\ Ran("copy") =>
        LET src == TreeGet(DocBefore, LastFromToks)
            parent == TreeGet(DocBefore, ParentToks(LastToks))
            idx == ParseArrayIndex(LastToks[Len(LastToks)])
        IN  (IsTree(DocBefore) /\ src.ok /\ LastToks # <<>> /\ parent.ok
             /\ parent.v.t = "arr" /\ idx.ok /\ idx.i < Len(parent.v.e)) =>
                /\ last.ok
                /\ last.res = TreePut(DocBefore, LastToks, src.v)
                /\ Len(TreeGet(last.res, ParentToks(LastToks)).v.e) = Len(parent.v.e)

\* a copy to index 0 of a three-element array left it three elements long
\* with a new element 0, and the move to index 1 that followed made it four
\* elements long
C13_Witness ==
    /\ Ran("move")
    /\ last.ok
    /\ Len(patch0) = 2
    /\ patch0[1].op = "copy" /\ patch0[1].path = P(<<kR, <<"0">>>>)
    /\ LastOp.path = P(<<kR, <<"1">>>>)
    /\ Len(doc0.m[kR].e) = 3
    /\ Len(DocBefore.m[kR].e) = 3
    /\ DocBefore.m[kR].e[1] # doc0.m[kR].e[1]
    /\ Len(last.res.m[kR].e) = 4
    /\ last.res.m[kR].e[2] = TreeGet(DocBefore, LastFromToks).v
    /\ last.res.m[kR].e[3] = DocBefore.m[kR].e[2]
    /\ last.res.m[kR].e[4] = DocBefore.m[kR].e[3]

\* in place of the last executed operation, a move: get the value at `from`,
\* run a remove of `from`, then run an add at `path` of that value, on the
\* document the remove returned: [exists, ok, res]
MoveUnfolded ==
    Bind(Unmarshal(<<>>, doc0), LAMBDA rd :
    Bind(UnmarshalPatch(rd.h, patch0, 1, <<>>), LAMBDA rp :
    Bind(Steps(rp.h, rd.v, rp.patch, 1, Len(last.ran) - 1), LAMBDA s :
    Bind(jpGet(s.h, s.v, LastOp.from), LAMBDA val :
    IF ~val.ok THEN [exists |-> FALSE, ok |-> FALSE, res |-> PS("null")]
    ELSE Bind(applyOp(s.h, s.v, Operation("remove", LastOp.from, <<>>, Nil)), LAMBDA r1 :
         IF ~r1.ok THEN [exists |-> TRUE, ok |-> FALSE, res |-> PS("null")]
         ELSE Bind(applyOp(r1.h, r1.v, Operation("add", LastOp.path, <<>>, val.v)), LAMBDA r2 :
              [exists |-> TRUE, ok |-> r2.ok, res |-> Reify(r2.h, r2.v)]))))))

\* C14: on a document where `from` exists, move(from, path) succeeds exactly
\* when removing `from` and then adding at `path` the value that was at `from`
\* succeeds, and returns the same document: the destination is interpreted in
\* the document without the source.
C14_MoveIsRemoveThenAdd ==
    Ran("move") =>
        (MoveUnfolded.exists =>
            /\ last.ok = MoveUnfolded.ok
            /\ last.ok => last.res = MoveUnfolded.res)

\* index 0 of a four-element array was moved to index 3: the element is last
C14_Witness ==
    /\ Ran("move")
    /\ last.ok
    /\ LastOp.from = P(<<kR, <<"0">>>>)
    /\ LastOp.path = P(<<kR, <<"3">>>>)
    /\ IsTree(DocBefore)
    /\ Len(DocBefore.m[kR].e) = 4
    /\ last.res.m[kR].e = SubSeq(DocBefore.m[kR].e, 2, 4) \o <<DocBefore.m[kR].e[1]>>
    /\ DocBefore.m[kR].e[1] # DocBefore.m[kR].e[4]

\* the last executed operation, run on the document the operations before it
\* produced from a freshly decoded document: [ok, same], same iff no map and
\* no backing array is written by it
LastStep ==
    Bind(Unmarshal(<<>>, doc0), LAMBDA rd :
    Bind(UnmarshalPatch(rd.h, patch0, 1, <<>>), LAMBDA rp :
    Bind(Steps(rp.h, rd.v, rp.patch, 1, Len(last.ran) - 1), LAMBDA s :
    Bind(applyOp(s.h, s.v, rp.patch[Len(last.ran)]), LAMBDA r :
         [ok |-> r.ok, same |-> (r.h = s.h)]))))

\* C15: replace at a path that does not resolve in the current document
\* returns an error and leaves the document unmodified (also the document
\* passed to ApplyInPlace); replace at an existing path succeeds, overwrites
\* that node and changes nothing else.
C15_ReplaceNeedsTarget ==
    Ran("replace") =>
        IF TreeGet(DocBefore, LastToks).ok
        THEN /\ last.ok
             /\ IsTree(DocBefore) => last.res = TreePut(DocBefore, LastToks, LastOp.value)
        ELSE /\ ~last.ok
             /\ LastStep.same
             /\ (last.call = "ApplyInPlace" /\ Len(last.ran) = 1) => last.argAfter = doc0

\* C16: a test operation succeeds exactly when its path exists and the value
\* there is deep-equal to the expected value; otherwise (a mismatch, a missing
\* path) the call returns an error; in both outcomes the document is
\* unchanged.
C16_TestReadsOnly ==
    Ran("test") =>
        LET target == TreeGet(DocBefore, LastToks) IN
        /\ last.ok <=> (target.ok /\ target.v = LastOp.value)
        /\ ~last.ok => (last.err.failed /\ last.err.kind = "test")
        /\ last.ok => last.res = DocBefore
        /\ LastStep.same
        /\ (last.call = "ApplyInPlace" /\ Len(last.ran) = 1) => last.argAfter = doc0

\* ApplyInPlace failed on a test of an existing path that holds another value,
\* and the document is as it was
C16_Witness ==
    /\ Ran("test")
    /\ last.call = "ApplyInPlace"
    /\ Len(last.ran) = 1
    /\ TreeGet(doc0, LastToks).ok
    /\ TreeGet(doc0, LastToks).v # LastOp.value
    /\ ~last.ok
    /\ last.argAfter = doc0

RECURSIVE ThroughObjects(_, _)
\* the tokens lead through objects only, to a node of the JSON tree pv
ThroughObjects(pv, toks) ==
    \/ toks = <<>>
    \/ /\ pv.t = "map"
       /\ Head(toks) \in DOMAIN pv.m
       /\ ThroughObjects(pv.m[Head(toks)], Tail(toks))

C18_AfterUntouched ==
    last.call = "ExtractAdded" =>
        /\ last.argBefore = doc0
        /\ last.argAfter = doc0
        /\ last.patchAfter = patch0
        /\ LET before == UnmarshalPatch(Unmarshal(<<>>, doc0).h, patch0, 1, <<>>).h
           IN  \A a \in 1..Len(before) : heap[a] = before[a]

\* an extraction under the nested object parent /o/y and the array parent /r
\* succeeded and took both additions out of remaining
C18_Witness ==
    /\ last.call = "ExtractAdded"
    /\ last.ok
    /\ doc0 = AfterObject
    /\ last.added = PM((kO :> PM(kY :> PM(kZ :> PS("A")))) @@ (kR :> PA(<<PS("C")>>)))
    /\ last.res = PM((kO :> PM((kX :> PS("A")) @@ (kY :> PM(<<>>))))
                     @@ (kR :> PA(<<PS("A"), PS("B")>>)))

\* the add operations of the caller's patch, as [parent, child] token lists
AddsOf(pp) ==
    {[parent |-> ParentToks(jpNew(pp[i].path).toks),
      child |-> jpNew(pp[i].path).toks[Len(jpNew(pp[i].path).toks)]] :
        i \in {j \in 1..Len(pp) : pp[j].op = "add" /\ pp[j].path # <<>>}}

\* C19: ExtractAdded fails without a partial result: when the patch has an add
\* at the document root, or an add whose parent path does not exist in
\* `after`, the call returns an error, and whenever it returns an error both
\* remaining and addedOnly are nil, whatever the other operations of the patch.
C19_ErrorsGiveNoPartialResult ==
    last.call = "ExtractAdded" =>
        /\ (\E i \in 1..Len(patch0) : patch0[i].op = "add" /\ patch0[i].path = <<>>)
               => ~last.ok
        /\ (\E a \in AddsOf(patch0) : ~TreeGet(doc0, a.parent).ok) => ~last.ok
        /\ ~last.ok => /\ out = Nil
                       /\ arg = Nil
                       /\ last.res = PS("null")
                       /\ last.added = PS("null")

\* a valid add on /o/x followed by a root add or by an add under the missing
\* parent /q: the call failed
C19_Witness ==
    /\ last.call = "ExtractAdded"
    /\ ~last.ok
    /\ doc0 = AfterObject
    /\ Len(patch0) = 2
    /\ patch0[1].op = "add"
    /\ patch0[1].path = P(<<kO, kX>>)
    /\ patch0[2].op = "add"
    /\ patch0[2].path = P(<<kQ, kZ>>)

\* the object parents of the adds of the patch: the parent paths that lead to
\* an object of the document
ObjectParents(d, pp) ==
    {a.parent : a \in {b \in AddsOf(pp) : TreeGet(d, b.parent).ok /\ TreeGet(d, b.parent).v.t = "map"}}

\* the keys that at least one add of the patch targets under the parent
Targeted(pp, parent) == {a.child : a \in {b \in AddsOf(pp) : b.parent = parent}}

\* every targeted key of every object parent is absent from that parent in
\* remaining and present in addedOnly with the value found in `after`
TargetedExtracted ==
    \A parent \in ObjectParents(doc0, patch0) :
        \A k \in Targeted(patch0, parent) :
            /\ TreeGet(last.res, parent).ok
            /\ TreeGet(last.res, parent).v.t = "map"
            /\ k \notin DOMAIN TreeGet(last.res, parent).v.m
            /\ TreeGet(doc0, Append(parent, k)).ok =>
                   /\ TreeGet(last.added, Append(parent, k)).ok
                   /\ TreeGet(last.added, Append(parent, k)).v = TreeGet(doc0, Append(parent, k)).v

\* the statement of C20 as written: every key that is not targeted stays in
\* remaining with its value from `after`
C20_UntargetedKeepValue ==
    (last.call = "ExtractAdded" /\ last.ok) =>
        /\ TargetedExtracted
        /\ \A parent \in ObjectParents(doc0, patch0) :
               \A k \in DOMAIN TreeGet(doc0, parent).v.m \ Targeted(patch0, parent) :
                   /\ TreeGet(last.res, Append(parent, k)).ok
                   /\ TreeGet(last.res, Append(parent, k)).v = TreeGet(doc0, Append(parent, k)).v

\* C20 (amended): ExtractAdded on an object parent: every key targeted by at
\* least one add on that parent is absent from that parent in remaining and
\* present in addedOnly at the same path with the value found in `after` (null
\* when `after` has no such key), whatever values the operations carry; every
\* key not targeted stays in remaining, with its value from `after` when the
\* patch has no add below that key.
C20_ObjectParentSplit ==
    (last.call = "ExtractAdded" /\ last.ok) =>
        /\ TargetedExtracted
        /\ \A parent \in ObjectParents(doc0, patch0) :
               /\ \A k \in Targeted(patch0, parent) :
                      /\ TreeGet(last.added, Append(parent, k)).ok
                      /\ ~TreeGet(doc0, Append(parent, k)).ok
                             => TreeGet(last.added, Append(parent, k)).v = PS("null")
               /\ \A k \in DOMAIN TreeGet(doc0, parent).v.m \ Targeted(patch0, parent) :
                      /\ TreeGet(last.res, Append(parent, k)).ok
                      /\ (\A a \in AddsOf(patch0) :
                             \/ Len(a.parent) <= Len(parent)
                             \/ SubSeq(a.parent, 1, Len(parent) + 1) # Append(parent, k))
                             => TreeGet(last.res, Append(parent, k)).v
                                    = TreeGet(doc0, Append(parent, k)).v

\* two adds on the key x of the parent /o, both carrying "X": one entry in
\* addedOnly, with the "A" of `after`, and y stays under /o in remaining
C20_Witness ==
    /\ last.call = "ExtractAdded"
    /\ last.ok
    /\ doc0 = AfterObject
    /\ Len(patch0) = 2
    /\ patch0[1].path = P(<<kO, kX>>)
    /\ patch0[2] = patch0[1]
    /\ patch0[1].value = PS("X")
    /\ last.added = PM(kO :> PM(kX :> PS("A")))
    /\ last.res = PM((kO :> PM(kY :> PM(kZ :> PS("A"))))
                     @@ (kR :> PA(<<PS("A"), PS("B"), PS("C")>>)))

\* the array parents of the adds of the patch: the parent paths that lead to
\* an array of the document
ArrayParents(d, pp) ==
    {a.parent : a \in {b \in AddsOf(pp) : TreeGet(d, b.parent).ok /\ TreeGet(d, b.parent).v.t = "arr"}}

\* the last tokens of the adds of the patch under the parent, in patch order
ChildrenAt(pp, parent) ==
    Bind(SelectSeq(pp, LAMBDA o : o.op = "add" /\ o.path # <<>>
                                  /\ ParentToks(jpNew(o.path).toks) = parent), LAMBDA s :
         [i \in 1..Len(s) |-> jpNew(s[i].path).toks[Len(jpNew(s[i].path).toks)]])

\* the set of indices the adds under the array parent resolve to: baseLen + k
\* for the k-th '-' (k from 0), itself for a numeric index
ResolvedSet(d, pp, parent) ==
    Bind(ChildrenAt(pp, parent), LAMBDA ch :
         {IF ch[i] = Dash
          THEN Len(TreeGet(d, parent).v.e) - Len(ch) + Cardinality({j \in 1..(i - 1) : ch[j] = Dash})
          ELSE ParseArrayIndex(ch[i]).i : i \in 1..Len(ch)})

\* C21: ExtractAdded index resolution on an array parent, with baseLen = the
\* length of the parent in `after` minus the number of adds on that parent: a
\* negative baseLen or a numeric index >= baseLen makes the call fail; in a
\* successful call the k-th '-' stands for index baseLen + k and a numeric
\* index below baseLen for itself (the elements taken out are those of `after`
\* at these indices).
C21_IndexResolution ==
    last.call = "ExtractAdded" =>
        \A parent \in ArrayParents(doc0, patch0) :
            LET ch == ChildrenAt(patch0, parent)
                e == TreeGet(doc0, parent).v.e
                baseLen == Len(e) - Len(ch)
            IN  /\ baseLen < 0 => ~last.ok
                /\ (\E i \in 1..Len(ch) :
                        ch[i] # Dash /\ (~ParseArrayIndex(ch[i]).ok
                                         \/ ParseArrayIndex(ch[i]).i >= baseLen)) => ~last.ok
                /\ last.ok =>
                       /\ TreeGet(last.added, parent).ok
                       /\ TreeGet(last.added, parent).v.t = "arr"
                       /\ {TreeGet(last.added, parent).v.e[i] :
                               i \in 1..Len(TreeGet(last.added, parent).v.e)}
                              = {e[x + 1] : x \in ResolvedSet(doc0, patch0, parent)}

\* two appends under /r of length 3: baseLen is 1, the appends stand for the
\* indices 1 and 2
C21_Witness ==
    /\ last.call = "ExtractAdded"
    /\ last.ok
    /\ doc0 = AfterObject
    /\ Len(patch0) = 2
    /\ patch0[1].path = P(<<kR, Dash>>)
    /\ patch0[2].path = P(<<kR, Dash>>)
    /\ ResolvedSet(doc0, patch0, <<kR>>) = {1, 2}
    /\ last.added = PM(kR :> PA(<<PS("B"), PS("C")>>))

\* the numbers of the set S in ascending order
Ascending(S) ==
    CHOOSE s \in [1..Cardinality(S) -> S] : \A i \in 1..(Cardinality(S) - 1) : s[i] < s[i + 1]

\* the elements of e at the 0-based positions of S, in ascending position order
ElementsAt(e, S) == [i \in 1..Cardinality(S) |-> e[Ascending(S)[i] + 1]]

\* C22: ExtractAdded results on an array parent: in a successful call
\* remaining's array is the parent array of `after` without the elements at
\* the resolved indices, the others in their original order, and addedOnly's
\* array at the same path holds the elements of `after` at the resolved
\* indices in ascending index order; together they hold every element of the
\* parent array exactly once.
C22_ArrayParentSplit ==
    (last.call = "ExtractAdded" /\ last.ok) =>
        \A parent \in ArrayParents(doc0, patch0) :
            LET e == TreeGet(doc0, parent).v.e
                R == ResolvedSet(doc0, patch0, parent)
            IN  /\ TreeGet(last.res, parent).ok
                /\ TreeGet(last.res, parent).v = PA(ElementsAt(e, (0..(Len(e) - 1)) \ R))
                /\ TreeGet(last.added, parent).ok
                /\ TreeGet(last.added, parent).v = PA(ElementsAt(e, R))
                /\ Len(TreeGet(last.res, parent).v.e) + Len(TreeGet(last.added, parent).v.e) = Len(e)

\* an append and then an add at index 0 under /r = ["A", "B", "C"]: baseLen
\* is 1, the elements at 0 and 1 are taken out in ascending index order
C22_Witness ==
    /\ last.call = "ExtractAdded"
    /\ last.ok
    /\ doc0 = AfterObject
    /\ Len(patch0) = 2
    /\ patch0[1].path = P(<<kR, Dash>>)
    /\ patch0[2].path = P(<<kR, <<"0">>>>)
    /\ TreeGet(last.res, <<kR>>).v = PA(<<PS("C")>>)
    /\ last.added = PM(kR :> PA(<<PS("A"), PS("B")>>))

\* --------------------------------------------------- the Deltas of a Diff

\* the path ends in the append marker
EndsInDash(path) ==
    /\ jpNew(path).ok
    /\ jpNew(path).toks # <<>>
    /\ jpNew(path).toks[Len(jpNew(path).toks)] = Dash

RECURSIVE DeltasBefore(_, _)
\* the number of Deltas recorded for the operations before the i-th
DeltasBefore(pp, i) ==
    IF i = 1 THEN 0 ELSE DeltasBefore(pp, i - 1)
         + (IF pp[i - 1].op = "test" THEN 0 ELSE IF pp[i - 1].op = "move" THEN 2 ELSE 1)

\* C23: Deltas carry only concrete paths: in the Diff of a successful Prepare
\* no Delta, forward or reverse path ends in the append marker, and an add,
\* move or copy whose destination ends in the append marker is recorded at
\* the index equal to the length the parent array has in the working document
\* when that operation is simulated (after all earlier operations).
C23_DeltasConcrete ==
    (last.call = "Prepare" /\ last.ok) =>
        /\ \A i \in 1..Len(diff0.Deltas) :
               /\ ~EndsInDash(diff0.Deltas[i].Path)
               /\ ~EndsInDash(diff0.forward[i].path)
               /\ ~EndsInDash(diff0.reverse[i].path)
        /\ \A i \in 1..Len(patch0) :
               (patch0[i].op \in {"add", "move", "copy"} /\ EndsInDash(patch0[i].path)) =>
                   LET toks == ParentToks(jpNew(patch0[i].path).toks)
                       parent == TreeGet(FreshSteps(doc0, patch0, i - 1).res, toks)
                   IN  /\ parent.ok
                       /\ parent.v.t = "arr"
                       /\ diff0.Deltas[DeltasBefore(patch0, i) + 1].Path
                              = jpString(toks) \o <<"/">> \o Itoa(Len(parent.v.e))

\* an append under /r (length 3) and then a move to /r/-: the Deltas are
\* recorded at /r/3 and at /r/4
C23_Witness ==
    /\ last.call = "Prepare"
    /\ last.ok
    /\ doc0 = DocObject
    /\ Len(patch0) = 2
    /\ patch0[1].op = "add"
    /\ patch0[1].path = P(<<kR, Dash>>)
    /\ patch0[2].op = "move"
    /\ patch0[2].path = P(<<kR, Dash>>)
    /\ diff0.Deltas[1].Path = P(<<kR, <<"3">>>>)
    /\ diff0.Deltas[2].Path = P(<<kR, <<"4">>>>)

\* C24: Delta production per operation kind: the Deltas of a successful
\* Prepare are, in patch order, one add Delta per add (with the operation's
\* value), one remove Delta per remove, one replace Delta per replace, one add
\* Delta per copy (with the value at the source), none per test, and per move
\* an add Delta and then a remove Delta at the source, both with the moved
\* value.
C24_DeltasPerKind ==
    (last.call = "Prepare" /\ last.ok) =>
        /\ Len(diff0.Deltas) = DeltasBefore(patch0, Len(patch0) + 1)
        /\ \A i \in 1..Len(patch0) :
               LET o == patch0[i]
                   k == DeltasBefore(patch0, i)
                   before == FreshSteps(doc0, patch0, i - 1).res
               IN  /\ o.op = "add" =>
                          /\ diff0.Deltas[k + 1].Op = "add"
                          /\ diff0.Deltas[k + 1].After = o.value
                          /\ ~EndsInDash(o.path) => diff0.Deltas[k + 1].Path = o.path
                   /\ o.op = "remove" =>
                          /\ diff0.Deltas[k + 1].Op = "remove"
                          /\ diff0.Deltas[k + 1].Path = o.path
                          /\ IsTree(before) =>
                                 diff0.Deltas[k + 1].Before = TreeGet(before, jpNew(o.path).toks).v
                   /\ o.op = "replace" =>
                          /\ diff0.Deltas[k + 1].Op = "replace"
                          /\ diff0.Deltas[k + 1].Path = o.path
                          /\ diff0.Deltas[k + 1].After = o.value
                   /\ o.op = "copy" =>
                          /\ diff0.Deltas[k + 1].Op = "add"
                          /\ ~EndsInDash(o.path) => diff0.Deltas[k + 1].Path = o.path
                          /\ IsTree(before) =>
                                 diff0.Deltas[k + 1].After = TreeGet(before, jpNew(o.from).toks).v
                   /\ o.op = "move" =>
                          /\ diff0.Deltas[k + 1].Op = "add"
                          /\ ~EndsInDash(o.path) => diff0.Deltas[k + 1].Path = o.path
                          /\ diff0.Deltas[k + 2].Op = "remove"
                          /\ diff0.Deltas[k + 2].Path = o.from
                          /\ diff0.Deltas[k + 1].After = diff0.Deltas[k + 2].Before
                          /\ IsTree(before) =>
                                 diff0.Deltas[k + 1].After = TreeGet(before, jpNew(o.from).toks).v

\* a test and then a move of /o/x to /o/y: two Deltas, the add at /o/y and
\* the remove at /o/x, both with "A"
C24_Witness ==
    /\ last.call = "Prepare"
    /\ last.ok
    /\ Len(patch0) = 2
    /\ patch0[1].op = "test"
    /\ patch0[2].op = "move"
    /\ Len(diff0.Deltas) = 2
    /\ diff0.Deltas[1].Op = "add"
    /\ diff0.Deltas[1].Path = P(<<kO, kY>>)
    /\ diff0.Deltas[2].Op = "remove"
    /\ diff0.Deltas[2].Path = P(<<kO, kX>>)
    /\ diff0.Deltas[1].After = PS("A")
    /\ diff0.Deltas[2].Before = PS("A")

\* C25: reverse patch compilation: the reverse patch has one operation per
\* Delta, in reverse Delta order: a Delta at the document root gives a root
\* replace with Before; otherwise an add Delta gives replace-with-Before when
\* ExistedBefore and remove when not, a remove Delta gives add-with-Before, a
\* replace Delta gives replace-with-Before.
C25_ReverseCompilation ==
    (last.call = "Prepare" /\ last.ok) =>
        /\ Len(diff0.reverse) = Len(diff0.Deltas)
        /\ \A i \in 1..Len(diff0.Deltas) :
               LET dl == diff0.Deltas[i]
                   r == diff0.reverse[Len(diff0.Deltas) + 1 - i]
               IN  /\ r.path = dl.Path
                   /\ dl.Path = <<>> => (r.op = "replace" /\ r.value = dl.Before)
                   /\ (dl.Path # <<>> /\ dl.Op = "add" /\ dl.ExistedBefore)
                          => (r.op = "replace" /\ r.value = dl.Before)
                   /\ (dl.Path # <<>> /\ dl.Op = "add" /\ ~dl.ExistedBefore) => r.op = "remove"
                   /\ (dl.Path # <<>> /\ dl.Op = "remove")
                          => (r.op = "add" /\ r.value = dl.Before)
                   /\ (dl.Path # <<>> /\ dl.Op = "replace")
                          => (r.op = "replace" /\ r.value = dl.Before)

\* an add at the existing index /r/1 and then an add at the root: the reverse
\* patch is a root replace with the document before it, then a replace at
\* /r/1 with the element that was there
C25_Witness ==
    /\ last.call = "Prepare"
    /\ last.ok
    /\ doc0 = DocObject
    /\ Len(patch0) = 2
    /\ patch0[1].op = "add"
    /\ patch0[1].path = P(<<kR, <<"1">>>>)
    /\ patch0[2].op = "add"
    /\ patch0[2].path = <<>>
    /\ diff0.Deltas[1].ExistedBefore
    /\ diff0.reverse[1].op = "replace"
    /\ diff0.reverse[1].path = <<>>
    /\ diff0.reverse[2] = Operation("replace", P(<<kR, <<"1">>>>), <<>>, PS("B"))

\* ------------------------------------------------------- the array differ

\* the greedy candidate pairs of a and b: the r-th occurrence of a value in b
\* is paired with the r-th occurrence of that value in a, when there is one
Candidates(a, b) ==
    {[ai |-> p - 1, bj |-> j - 1] :
        <<p, j>> \in {q \in (1..Len(a)) \X (1..Len(b)) :
                        /\ a[q[1]] = b[q[2]]
                        /\ Cardinality({i \in 1..q[1] : a[i] = a[q[1]]})
                           = Cardinality({i \in 1..q[2] : b[i] = b[q[2]]})}}

\* the pairs of S increase strictly in both components
Increasing(S) == \A x, y \in S : x.bj < y.bj <=> x.ai < y.ai

\* the length of a longest subsequence of the candidates with increasing aIndex
LongestIncreasing(a, b) ==
    CHOOSE l \in 0..Len(a) :
        /\ \E S \in SUBSET Candidates(a, b) : Increasing(S) /\ Cardinality(S) = l
        /\ \A S \in SUBSET Candidates(a, b) : Increasing(S) => Cardinality(S) <= l

\* C26: array diff keeps a longest increasing subsequence: for arrays a
\* (length n) and b (length m) the kept (aIndex, bIndex) pairs are candidate
\* pairs, increase strictly in both components, pair elements with equal
\* comparison tokens, and their number L is the length of a longest
\* subsequence of the greedy candidate sequence that increases by aIndex; the
\* emitted patch has exactly n - L removes and m - L adds.
C26_KeepsLongestIncreasing ==
    (last.call = "New" /\ doc0.t = "arr" /\ want.v.t = "arr") =>
        LET a == doc0.e
            b == want.v.e
            kept == keptPairs(a, b)
            K == {kept[i] : i \in 1..Len(kept)}
        IN  /\ Cardinality(K) = Len(kept)
            /\ K \subseteq Candidates(a, b)
            /\ Increasing(K)
            /\ \A i \in 1..Len(kept) : kept[i].bj = Ascending({x.bj : x \in K})[i]
            /\ \A x \in K : tokenOf(At0(a, x.ai)) = tokenOf(At0(b, x.bj))
            /\ Len(kept) = LongestIncreasing(a, b)
            /\ Cardinality({i \in 1..Len(patch0) : patch0[i].op = "remove"}) = Len(a) - Len(kept)
            /\ Cardinality({i \in 1..Len(patch0) : patch0[i].op = "add"}) = Len(b) - Len(kept)
            /\ \A i \in 1..Len(patch0) : patch0[i].op \in {"remove", "add"}

\* a = ["A", 1, ["A"]] and b = [1, ["A"], "A"]: three candidate pairs, the
\* longest increasing subsequence has two, the patch one remove and one add
C26_Witness ==
    /\ last.call = "New"
    /\ doc0 = PA(<<PS("A"), PS("1"), PA(<<PS("A")>>)>>)
    /\ want.v = PA(<<PS("1"), PA(<<PS("A")>>), PS("A")>>)
    /\ Cardinality(Candidates(doc0.e, want.v.e)) = 3
    /\ keptPairs(doc0.e, want.v.e) = <<[ai |-> 1, bj |-> 0], [ai |-> 2, bj |-> 1]>>
    /\ Len(patch0) = 2

\* the array index an operation of an array diff at the root names
IndexOf(o) == ParseArrayIndex(jpNew(o.path).toks[1]).i

\* C27: ordering of an array diff: in the patch emitted for one array all
\* removes come before all adds, the removes are in strictly descending index
\* order and in range, the adds in strictly ascending index order, each with
\* b's element at that index and at an index that is at most the length the
\* array has when the add is applied.
C27_RemovesThenAdds ==
    (last.call = "New" /\ doc0.t = "arr" /\ want.v.t = "arr") =>
        LET r == Cardinality({i \in 1..Len(patch0) : patch0[i].op = "remove"})
        IN  /\ \A i \in 1..Len(patch0) :
                   /\ Len(jpNew(patch0[i].path).toks) = 1
                   /\ ParseArrayIndex(jpNew(patch0[i].path).toks[1]).ok
                   /\ patch0[i].op = (IF i <= r THEN "remove" ELSE "add")
            /\ \A i \in 1..r :
                   /\ IndexOf(patch0[i]) < Len(doc0.e)
                   /\ i > 1 => IndexOf(patch0[i]) < IndexOf(patch0[i - 1])
            /\ \A i \in (r + 1)..Len(patch0) :
                   /\ i > r + 1 => IndexOf(patch0[i]) > IndexOf(patch0[i - 1])
                   /\ IndexOf(patch0[i]) < Len(want.v.e)
                   /\ patch0[i].value = At0(want.v.e, IndexOf(patch0[i]))
                   /\ IndexOf(patch0[i]) <= (Len(doc0.e) - r) + (i - r - 1)

\* a = ["A", "A", "A"], b = [1, 1, 1]: removes at 2, 1, 0, then adds at 0, 1, 2
C27_Witness ==
    /\ last.call = "New"
    /\ doc0 = PA(<<PS("A"), PS("A"), PS("A")>>)
    /\ want.v = PA(<<PS("1"), PS("1"), PS("1")>>)
    /\ Len(patch0) = 6
    /\ [i \in 1..6 |-> IndexOf(patch0[i])] = <<2, 1, 0, 0, 1, 2>>
    /\ patch0[3].op = "remove"
    /\ patch0[4].op = "add"

\* ------------------------------------------------------- copy and aliasing

\* C28: copy creates an independent value: after a copy of an object or array
\* from `from` to `path`, a later add, remove or replace of the same patch
\* inside the destination subtree leaves the subtree at `from` unchanged, and
\* one inside the source subtree leaves the subtree at `path` unchanged.
C28_CopyIsIndependent ==
    (/\ last.call \in {"Apply", "ApplyInPlace"}
     /\ last.ok
     /\ Len(patch0) = 2
     /\ patch0[1].op = "copy"
     /\ patch0[2].op \in {"add", "remove", "replace"}) =>
        LET mid == FreshSteps(doc0, patch0, 1).res
            from == jpNew(patch0[1].from).toks
            to == jpNew(patch0[1].path).toks
            p2 == jpNew(patch0[2].path).toks
            under(p) == Len(p) < Len(p2) /\ SubSeq(p2, 1, Len(p)) = p
        IN  (IsTree(mid) /\ TreeGet(mid, from).v.t \in {"map", "arr"} /\ TreeGet(mid, to).ok) =>
                /\ (under(to) /\ ~under(from))
                       => TreeGet(last.res, from).v = TreeGet(mid, from).v
                /\ (under(from) /\ ~under(to))
                       => TreeGet(last.res, to).v = TreeGet(mid, to).v

\* ------------------------------------------------- Prepare against Apply

\* C29: Prepare and Apply agree on success: Prepare(document, patch) returns
\* an error if and only if Apply(document, patch) does, and then both fail on
\* the same operation of the patch.
C29_PrepareAgreesWithApply ==
    last.call = "Prepare" =>
        /\ last.ok <=> FreshApply(doc0, patch0).ok
        /\ (~last.ok /\ ~FreshApply(doc0, patch0).ok)
               => last.at = Len(FreshApply(doc0, patch0).ran)

\* ------------------------------------------- extraction after an Apply

\* C30: ExtractAdded undoes additions: for a document d and a patch p of
\* non-root adds that each, on the document the earlier operations made,
\* create a new object key (neither the append marker nor a number) or append
\* with the append marker, ExtractAdded(Apply(d, p), p) succeeds and its
\* remaining result is deep-equal to d.
C30_ExtractUndoesAdds ==
    (/\ phase = "undone"
     /\ \A i \in 1..Len(patch0) :
            /\ patch0[i].op = "add"
            /\ patch0[i].path # <<>>
            /\ LET toks == jpNew(patch0[i].path).toks
                   parent == TreeGet(FreshSteps(doc0, patch0, i - 1).res, ParentToks(toks))
               IN  /\ parent.ok
                   /\ \/ parent.v.t = "arr" /\ toks[Len(toks)] = Dash
                      \/ /\ parent.v.t = "map"
                         /\ toks[Len(toks)] \notin DOMAIN parent.v.m
                         /\ toks[Len(toks)] # Dash
                         /\ ~ParseArrayIndex(toks[Len(toks)]).ok) => (last.ok /\ last.res = doc0)

====
